---------------------------- MODULE Spec2Model ----------------------------
(***************************************************************************)
(* A model of the marketing analytics toolkit's two analytic components:  *)
(*   - ROITracker (src/roi_tracker.py): snapshot history, alert rules,    *)
(*     alert callbacks, alert resolution;                                  *)
(*   - AttributionModelBuilder (src/attribution_models.py): the           *)
(*     attribution heuristics over customer journeys.                      *)
(* Python floats are modelled by exact rationals [n |-> num, d |-> den];  *)
(* float('inf') is the rational 1/0.                                       *)
(***************************************************************************)
EXTENDS Integers, Sequences, FiniteSets, TLC

VARIABLES
    now,              \* the wall clock datetime.now(), in hours
    snapshots,        \* ROITracker.snapshots
    alerts,           \* ROITracker.alerts
    alert_callbacks,  \* ROITracker.alert_callbacks
    recorded,         \* history variable: every snapshot ever recorded, in order
    notified,         \* history variable: callback invocations of the last record call
    op,               \* the last operation called and its arguments
    ret,              \* what the last operation returned (or raised)
    journeys,         \* the journeys handed to AttributionModelBuilder
    result,           \* what the last AttributionModelBuilder call returned (or raised)
    sev_in,           \* the (metric, current, comparison) triple under the alert rule
    sev_out,          \* the alert rule's verdict on sev_in
    monitoring_active, \* ROITracker.monitoring_active
    monitors          \* the start_monitoring coroutines: where each one is

vars == <<now, snapshots, alerts, alert_callbacks, recorded, notified, op, ret,
          journeys, result, sev_in, sev_out, monitoring_active, monitors>>

trackerVars == <<now, snapshots, alerts, alert_callbacks, recorded, notified, op, ret>>
attrVars == <<journeys, result>>
sevVars == <<sev_in, sev_out>>
monVars == <<monitoring_active, monitors>>

(***************************************************************************)
(* Exact rational arithmetic standing for Python float arithmetic.        *)
(***************************************************************************)
Abs(x) == IF x < 0 THEN -x ELSE x

Sign(x) == IF x < 0 THEN -1 ELSE IF x > 0 THEN 1 ELSE 0

RECURSIVE GCD(_, _)
GCD(a, b) == IF b = 0 THEN a ELSE GCD(b, a % b)

\* The rational n/d in lowest terms with d >= 0; n/0 is +inf, -inf (or nan for 0/0).
Rat(n, d) ==
    IF d = 0 THEN [n |-> Sign(n), d |-> 0]
    ELSE LET g == GCD(Abs(n), Abs(d))
             s == IF d < 0 THEN -1 ELSE 1
         IN  [n |-> (s * n) \div g, d |-> (s * d) \div g]

RInt(k) == [n |-> k, d |-> 1]
Zero == RInt(0)
One == RInt(1)
Inf == [n |-> 1, d |-> 0]

\* The arithmetic divides out common factors before it multiplies.
CommonFactor(x, y) == IF GCD(Abs(x), Abs(y)) = 0 THEN 1 ELSE GCD(Abs(x), Abs(y))

RAdd(a, b) ==
    LET g == CommonFactor(a.d, b.d)
    IN  Rat(a.n * (b.d \div g) + b.n * (a.d \div g), (a.d \div g) * b.d)
RSub(a, b) == RAdd(a, [n |-> -b.n, d |-> b.d])
RMul(a, b) ==
    LET g == CommonFactor(a.n, b.d)
        h == CommonFactor(b.n, a.d)
    IN  Rat((a.n \div g) * (b.n \div h), (a.d \div h) * (b.d \div g))
RDiv(a, b) == RMul(a, [n |-> IF b.n < 0 THEN -b.d ELSE b.d, d |-> Abs(b.n)])
RLe(a, b) ==
    LET g == CommonFactor(a.d, b.d)
    IN  a.n * (b.d \div g) <= b.n * (a.d \div g)
RLt(a, b) ==
    LET g == CommonFactor(a.d, b.d)
    IN  a.n * (b.d \div g) < b.n * (a.d \div g)
RGe(a, b) == RLe(b, a)
RGt(a, b) == RLt(b, a)

RECURSIVE RSumSeq(_)
RSumSeq(s) == IF s = <<>> THEN Zero ELSE RAdd(s[1], RSumSeq(Tail(s)))

\* numpy.mean over a non-empty list
Mean(s) == RDiv(RSumSeq(s), RInt(Len(s)))

\* An Optional value: None, or Some(x)
None == <<>>
Some(x) == <<x>>

(***************************************************************************)
(* ROITracker: data                                                        *)
(***************************************************************************)
HoursPerDay == 24

\* MetricType members that the tracker stores or derives
StoredMetrics == {"cost", "revenue", "impressions", "clicks", "conversions"}
MetricType == {"roas", "cpa", "ctr", "conversion_rate"} \cup StoredMetrics

\* snapshot.metrics.get(metric, 0)
MetricGet(metrics, metric) == IF metric \in DOMAIN metrics THEN metrics[metric] ELSE 0

\* CampaignSnapshot.roas without the test of the cost
roasUnguarded(s) ==
    Rat(MetricGet(s.metrics, "revenue"), MetricGet(s.metrics, "cost"))

\* CampaignSnapshot.roas
roas(s) ==
    LET cost == MetricGet(s.metrics, "cost")
        revenue == MetricGet(s.metrics, "revenue")
    IN  IF cost > 0 THEN Rat(revenue, cost) ELSE Zero

\* CampaignSnapshot.cpa
cpa(s) ==
    LET cost == MetricGet(s.metrics, "cost")
        conversions == MetricGet(s.metrics, "conversions")
    IN  IF conversions > 0 THEN Rat(cost, conversions) ELSE Inf

\* CampaignSnapshot.ctr
ctr(s) ==
    LET clicks == MetricGet(s.metrics, "clicks")
        impressions == MetricGet(s.metrics, "impressions")
    IN  IF impressions > 0 THEN Rat(clicks, impressions) ELSE Zero

\* CampaignSnapshot.conversion_rate
conversion_rate(s) ==
    LET conversions == MetricGet(s.metrics, "conversions")
        clicks == MetricGet(s.metrics, "clicks")
    IN  IF clicks > 0 THEN Rat(conversions, clicks) ELSE Zero

\* The value of any metric of a snapshot, as get_performance_trend and
\* _check_performance_alerts read it.
MetricValue(s, metric_type) ==
    CASE metric_type = "roas" -> roas(s)
      [] metric_type = "cpa" -> cpa(s)
      [] metric_type = "ctr" -> ctr(s)
      [] metric_type = "conversion_rate" -> conversion_rate(s)
      [] OTHER -> RInt(MetricGet(s.metrics, metric_type))

\* ROITracker.__init__: the default alert thresholds (percent)
DefaultThresholds ==
    [m \in {"roas", "cpa", "ctr", "conversion_rate", "cost"} |->
        CASE m = "roas" -> [low |-> -10, medium |-> -20, high |-> -30, critical |-> -50]
          [] m = "cpa" -> [low |-> 10, medium |-> 25, high |-> 50, critical |-> 100]
          [] m = "ctr" -> [low |-> -15, medium |-> -30, high |-> -45, critical |-> -60]
          [] m = "conversion_rate" ->
                 [low |-> -10, medium |-> -20, high |-> -35, critical |-> -50]
          [] m = "cost" -> [low |-> 20, medium |-> 50, high |-> 100, critical |-> 200]]

\* thresholds.get(tier, default) of _check_performance_alerts
ThresholdGet(thresholds, tier, default) ==
    IF tier \in DOMAIN thresholds THEN thresholds[tier] ELSE default

\* metrics_to_check, in the dict's insertion order
MetricsToCheck == <<"roas", "cpa", "ctr", "conversion_rate", "cost">>

\* [value of metric_type for s in snaps]
RECURSIVE MetricValues(_, _)
MetricValues(snaps, metric_type) ==
    IF snaps = <<>> THEN <<>>
    ELSE <<MetricValue(snaps[1], metric_type)>> \o MetricValues(Tail(snaps), metric_type)

(***************************************************************************)
(* ROITracker._check_performance_alerts                                    *)
(***************************************************************************)
\* ComparisonSnapshots without the campaign filter
ComparisonSnapshotsAnyCampaign(snaps, campaign_id, t) ==
    SelectSeq(snaps, LAMBDA s:
        /\ s.timestamp >= t - 2 * HoursPerDay
        /\ s.timestamp < t - HoursPerDay)

\* comparison_snapshots: the campaign's stored snapshots of the previous day,
\* counted back from the clock at the time of the call
ComparisonSnapshots(snaps, campaign_id, t) ==
    SelectSeq(snaps, LAMBDA s:
        /\ s.campaign_id = campaign_id
        /\ s.timestamp >= t - 2 * HoursPerDay
        /\ s.timestamp < t - HoursPerDay)

\* values: what enters the comparison average of one metric
ComparisonValues(comparison, metric_type) ==
    LET all == MetricValues(comparison, metric_type)
    IN  CASE metric_type = "roas" -> SelectSeq(all, LAMBDA v: RGt(v, Zero))
          [] metric_type = "cpa" -> SelectSeq(all, LAMBDA v: v # Inf)
          [] OTHER -> all

\* comparison_metrics: metric -> mean, for the metrics that have values
ComparisonMetrics(comparison) ==
    [m \in {mt \in MetricType : ComparisonValues(comparison, mt) # <<>>} |->
        Mean(ComparisonValues(comparison, m))]

\* variance_pct = ((current_value - comparison_value) / comparison_value) * 100
VariancePct(current_value, comparison_value) ==
    RMul(RDiv(RSub(current_value, comparison_value), comparison_value), RInt(100))

\* Severity with the ladder tested from its lowest rung
SeverityLowFirst(metric_type, variance_pct, thresholds) ==
    IF metric_type \in {"roas", "ctr", "conversion_rate"} THEN
        IF RLe(variance_pct, RInt(ThresholdGet(thresholds, "low", -10))) THEN "low"
        ELSE "none"
    ELSE IF metric_type \in {"cpa", "cost"} THEN
        IF RGe(variance_pct, RInt(ThresholdGet(thresholds, "low", 10))) THEN "low"
        ELSE "none"
    ELSE "none"

\* Severity with strict comparisons (< and > for <= and >=)
SeverityStrict(metric_type, variance_pct, thresholds) ==
    IF metric_type \in {"roas", "ctr", "conversion_rate"} THEN
        IF RLt(variance_pct, RInt(ThresholdGet(thresholds, "critical", -50))) THEN "critical"
        ELSE IF RLt(variance_pct, RInt(ThresholdGet(thresholds, "high", -30))) THEN "high"
        ELSE IF RLt(variance_pct, RInt(ThresholdGet(thresholds, "medium", -20))) THEN "medium"
        ELSE IF RLt(variance_pct, RInt(ThresholdGet(thresholds, "low", -10))) THEN "low"
        ELSE "none"
    ELSE IF metric_type \in {"cpa", "cost"} THEN
        IF RGt(variance_pct, RInt(ThresholdGet(thresholds, "critical", 100))) THEN "critical"
        ELSE IF RGt(variance_pct, RInt(ThresholdGet(thresholds, "high", 50))) THEN "high"
        ELSE IF RGt(variance_pct, RInt(ThresholdGet(thresholds, "medium", 25))) THEN "medium"
        ELSE IF RGt(variance_pct, RInt(ThresholdGet(thresholds, "low", 10))) THEN "low"
        ELSE "none"
    ELSE "none"

\* The severity ladder of one metric; "none" stands for severity = None.
Severity(metric_type, variance_pct, thresholds) ==
    IF metric_type \in {"roas", "ctr", "conversion_rate"} THEN
        IF RLe(variance_pct, RInt(ThresholdGet(thresholds, "critical", -50))) THEN "critical"
        ELSE IF RLe(variance_pct, RInt(ThresholdGet(thresholds, "high", -30))) THEN "high"
        ELSE IF RLe(variance_pct, RInt(ThresholdGet(thresholds, "medium", -20))) THEN "medium"
        ELSE IF RLe(variance_pct, RInt(ThresholdGet(thresholds, "low", -10))) THEN "low"
        ELSE "none"
    ELSE IF metric_type \in {"cpa", "cost"} THEN
        IF RGe(variance_pct, RInt(ThresholdGet(thresholds, "critical", 100))) THEN "critical"
        ELSE IF RGe(variance_pct, RInt(ThresholdGet(thresholds, "high", 50))) THEN "high"
        ELSE IF RGe(variance_pct, RInt(ThresholdGet(thresholds, "medium", 25))) THEN "medium"
        ELSE IF RGe(variance_pct, RInt(ThresholdGet(thresholds, "low", 10))) THEN "low"
        ELSE "none"
    ELSE "none"

\* alert_thresholds.get(metric_type, {})
ThresholdsOf(alert_thresholds, metric_type) ==
    IF metric_type \in DOMAIN alert_thresholds THEN alert_thresholds[metric_type] ELSE <<>>

\* The verdict of the alert rule on one metric: "none" (no alert), or the severity
\* with the variance it rests on. has_comparison is metric_type in comparison_metrics.
AlertRule(metric_type, current_value, has_comparison, comparison_value) ==
    IF ~has_comparison \/ current_value = Zero THEN [severity |-> "none"]
    ELSE IF comparison_value = Zero THEN [severity |-> "none"]
    ELSE LET variance_pct == VariancePct(current_value, comparison_value)
         IN  [severity |-> Severity(metric_type, variance_pct,
                                    ThresholdsOf(DefaultThresholds, metric_type)),
              variance_pct |-> variance_pct]

\* alert_id: campaign, metric and the clock reading formatted to the second. The
\* model's clock value stands for that reading, so two calls with no Tick between
\* them fall in the same second.
AlertId(campaign_id, metric_type, t) == <<campaign_id, metric_type, t>>

\* The Alert the loop body builds for one metric, or None.
AlertFor(snapshot, metric_type, comparison_metrics, t) ==
    LET current_value == MetricValue(snapshot, metric_type)
        has == metric_type \in DOMAIN comparison_metrics
        comparison_value == IF has THEN comparison_metrics[metric_type] ELSE Zero
        verdict == AlertRule(metric_type, current_value, has, comparison_value)
    IN  IF verdict.severity = "none" THEN None
        ELSE Some([alert_id |-> AlertId(snapshot.campaign_id, metric_type, t),
                   campaign_id |-> snapshot.campaign_id,
                   channel |-> snapshot.channel,
                   metric_type |-> metric_type,
                   severity |-> verdict.severity,
                   current_value |-> current_value,
                   threshold_value |-> comparison_value,
                   variance_percentage |-> verdict.variance_pct,
                   timestamp |-> t,
                   is_resolved |-> FALSE,
                   resolution_timestamp |-> None])

\* The observers a caller may register: one that returns, one that raises.
Callbacks == {"cb_ok", "cb_raise"}
CallbackRaises(callback) == callback = "cb_raise"

\* CallCallbacks walking the list from its end (reversed(self.alert_callbacks))
RECURSIVE CallCallbacksReversed(_, _, _)
CallCallbacksReversed(callbacks, i, alert) ==
    IF i > Len(callbacks) THEN [calls |-> <<>>, raised |-> FALSE]
    ELSE LET call == [callback |-> callbacks[i], position |-> i, alert |-> alert]
             rest == CallCallbacksReversed(callbacks, i + 1, alert)
         IN  [calls |-> rest.calls \o <<call>>, raised |-> rest.raised]

\* CallCallbacks without the try/except around callback(alert)
RECURSIVE CallCallbacksNoCatch(_, _, _)
CallCallbacksNoCatch(callbacks, i, alert) ==
    IF i > Len(callbacks) THEN [calls |-> <<>>, raised |-> FALSE]
    ELSE LET call == [callback |-> callbacks[i], position |-> i, alert |-> alert]
             rest == CallCallbacksNoCatch(callbacks, i + 1, alert)
         IN  IF CallbackRaises(callbacks[i])
             THEN [calls |-> <<call>>, raised |-> TRUE]
             ELSE [calls |-> <<call>> \o rest.calls, raised |-> rest.raised]

\* for callback in self.alert_callbacks: try: callback(alert) except Exception: log
\* calls: the invocations made, in order; raised: an exception left the loop.
RECURSIVE CallCallbacks(_, _, _)
CallCallbacks(callbacks, i, alert) ==
    IF i > Len(callbacks) THEN [calls |-> <<>>, raised |-> FALSE]
    ELSE LET call == [callback |-> callbacks[i], position |-> i, alert |-> alert]
             rest == CallCallbacks(callbacks, i + 1, alert)
         IN  [calls |-> <<call>> \o rest.calls, raised |-> rest.raised]

\* for metric_type, current_value in metrics_to_check.items(): ...
RECURSIVE CheckMetricsFrom(_, _, _, _, _)
CheckMetricsFrom(k, snapshot, comparison_metrics, callbacks, t) ==
    IF k > Len(MetricsToCheck) THEN [alerts |-> <<>>, calls |-> <<>>, raised |-> FALSE]
    ELSE LET a == AlertFor(snapshot, MetricsToCheck[k], comparison_metrics, t)
         IN  IF a = None
             THEN CheckMetricsFrom(k + 1, snapshot, comparison_metrics, callbacks, t)
             ELSE LET n == CallCallbacks(callbacks, 1, a[1])
                      rest == CheckMetricsFrom(k + 1, snapshot, comparison_metrics,
                                               callbacks, t)
                  IN  IF n.raised
                      THEN [alerts |-> a, calls |-> n.calls, raised |-> TRUE]
                      ELSE [alerts |-> a \o rest.alerts,
                            calls |-> n.calls \o rest.calls,
                            raised |-> rest.raised]

\* _check_performance_alerts(snapshot): the alerts appended, the callback
\* invocations made, and whether an exception left the method.
CheckPerformanceAlerts(snapshot, snaps, callbacks, t) ==
    LET comparison == ComparisonSnapshots(snaps, snapshot.campaign_id, t)
    IN  IF comparison = <<>> THEN [alerts |-> <<>>, calls |-> <<>>, raised |-> FALSE]
        ELSE CheckMetricsFrom(1, snapshot, ComparisonMetrics(comparison), callbacks, t)

(***************************************************************************)
(* ROITracker: operations                                                  *)
(***************************************************************************)
\* The snapshot history keeps the last Capacity snapshots (10000 in the source,
\* scaled down here so that eviction is reached).
Capacity == 2

\* LastN with the slice taken from the wrong end (self.snapshots[:10000])
LastNKeepsOldest(s, n) == IF Len(s) > n THEN SubSeq(s, 1, n) ELSE s

\* self.snapshots[-10000:]
LastN(s, n) == IF Len(s) > n THEN SubSeq(s, Len(s) - n + 1, Len(s)) ELSE s

\* Bounds of the exploration
MaxNow == 2          \* days the clock may advance
MaxRecords == 3      \* record_campaign_snapshot calls
MaxCallbacks == 2    \* add_alert_callback calls

\* What a caller may record: campaigns, their channels, metric dictionaries.
Campaigns == {"campaign_1", "campaign_2"}
ChannelOf(campaign_id) == IF campaign_id = "campaign_1" THEN "paid_search" ELSE "social_media"

\* ROAS 4, CPA 10, CTR 0.1, conversion rate 0.1
ProfileBase ==
    [cost |-> 100, revenue |-> 400, impressions |-> 1000, clicks |-> 100, conversions |-> 10]
\* as ProfileBase with ROAS 2.6, 35% lower
ProfileDrop35 ==
    [cost |-> 100, revenue |-> 260, impressions |-> 1000, clicks |-> 100, conversions |-> 10]
\* as ProfileBase with twice the cost: ROAS 2, CPA 10, conversion rate 0.2
ProfileCostly ==
    [cost |-> 200, revenue |-> 400, impressions |-> 1000, clicks |-> 100, conversions |-> 20]
\* a snapshot with no metric entries at all
ProfileEmpty == <<>>

\* The snapshots a caller may pass at clock t: stamped t - offset.
SnapshotInputs(t, campaigns, profiles, offsets) ==
    { [campaign_id |-> c, channel |-> ChannelOf(c), timestamp |-> t - o, metrics |-> m] :
        c \in campaigns, o \in offsets, m \in profiles }

NoReturn == [raised |-> FALSE, value |-> None]

TrackerInit ==
    /\ now = 0
    /\ snapshots = <<>>
    /\ alerts = <<>>
    /\ alert_callbacks = <<>>
    /\ recorded = <<>>
    /\ notified = <<>>
    /\ op = [name |-> "__init__", arg |-> None]
    /\ ret = NoReturn

\* The clock advances by a day between calls.
Tick ==
    /\ now < MaxNow * HoursPerDay
    /\ now' = now + HoursPerDay
    /\ UNCHANGED <<snapshots, alerts, alert_callbacks, recorded, notified, op, ret>>

\* ROITracker.add_alert_callback
AddAlertCallback(callback) ==
    /\ alert_callbacks' = Append(alert_callbacks, callback)
    /\ op' = [name |-> "add_alert_callback", arg |-> Some(callback)]
    /\ ret' = NoReturn
    /\ UNCHANGED <<now, snapshots, alerts, recorded, notified>>

\* ROITracker.record_campaign_snapshot
RecordCampaignSnapshot(snapshot) ==
    LET appended == Append(snapshots, snapshot)
        checked == CheckPerformanceAlerts(snapshot, appended, alert_callbacks, now)
    IN  /\ alerts' = alerts \o checked.alerts
        /\ notified' = checked.calls
        /\ snapshots' = IF checked.raised THEN appended ELSE LastN(appended, Capacity)
        /\ recorded' = Append(recorded, snapshot)
        /\ op' = [name |-> "record_campaign_snapshot", arg |-> Some(snapshot)]
        /\ ret' = [raised |-> checked.raised, value |-> None]
        /\ UNCHANGED <<now, alert_callbacks>>

\* The first open alert with this id, or 0: for alert in self.alerts: if ... return True
RECURSIVE FirstOpen(_, _, _)
FirstOpen(als, alert_id, i) ==
    IF i > Len(als) THEN 0
    ELSE IF als[i].alert_id = alert_id /\ ~als[i].is_resolved THEN i
    ELSE FirstOpen(als, alert_id, i + 1)

\* ResolveAlert that does not test whether the alert is still open
ResolveAlertIgnoringState(alert_id) ==
    LET ids == {i \in 1..Len(alerts) : alerts[i].alert_id = alert_id}
        i == IF ids = {} THEN 0 ELSE CHOOSE k \in ids : \A l \in ids : k <= l
    IN  /\ alerts' = IF i = 0 THEN alerts
                     ELSE [alerts EXCEPT ![i].is_resolved = TRUE,
                                         ![i].resolution_timestamp = Some(now)]
        /\ ret' = [raised |-> FALSE, value |-> Some(i # 0)]
        /\ op' = [name |-> "resolve_alert", arg |-> Some(alert_id)]
        /\ UNCHANGED <<now, snapshots, alert_callbacks, recorded, notified>>

\* ROITracker.resolve_alert
ResolveAlert(alert_id) ==
    LET i == FirstOpen(alerts, alert_id, 1)
    IN  /\ alerts' = IF i = 0 THEN alerts
                     ELSE [alerts EXCEPT ![i].is_resolved = TRUE,
                                         ![i].resolution_timestamp = Some(now)]
        /\ ret' = [raised |-> FALSE, value |-> Some(i # 0)]
        /\ op' = [name |-> "resolve_alert", arg |-> Some(alert_id)]
        /\ UNCHANGED <<now, snapshots, alert_callbacks, recorded, notified>>

\* The ids a caller may pass to resolve_alert: those of the alerts raised so far
\* and one that no alert has.
UnknownAlertId == <<"no_campaign", "roas", 0>>
AlertIds == {alerts[i].alert_id : i \in 1..Len(alerts)} \cup {UnknownAlertId}

AttrIdle == journeys = <<>> /\ result = None
SevIdle == sev_in = None /\ sev_out = None

\* The start_monitoring coroutines a caller may create, and one that has not
\* been created: where it is, the checks it has made, and the number of checks
\* it had made when stop_monitoring was called while it was running
Loops == {1, 2}
NotCalled == [pc |-> "not_called", checks |-> 0, stopped_at |-> None]
MonIdle == monitoring_active = FALSE /\ monitors = [m \in Loops |-> NotCalled]

Init == TrackerInit /\ AttrIdle /\ SevIdle /\ MonIdle

TickStep ==
    /\ now < MaxNow * HoursPerDay
    /\ Tick
    /\ UNCHANGED <<attrVars, sevVars, monVars>>

CallbackStep(callbacks, max) ==
    /\ Len(alert_callbacks) < max
    /\ \E callback \in callbacks : AddAlertCallback(callback)
    /\ UNCHANGED <<attrVars, sevVars, monVars>>

RecordStep(inputs) ==
    /\ Len(recorded) < MaxRecords
    /\ \E snapshot \in inputs : RecordCampaignSnapshot(snapshot)
    /\ UNCHANGED <<attrVars, sevVars, monVars>>

ResolveStep ==
    /\ \E alert_id \in AlertIds : ResolveAlert(alert_id)
    /\ UNCHANGED <<attrVars, sevVars, monVars>>

\* Recording with observers of both kinds, on a small set of snapshots.
Next ==
    \/ TickStep
    \/ CallbackStep(Callbacks, MaxCallbacks)
    \/ RecordStep(SnapshotInputs(now, {"campaign_1"}, {ProfileBase, ProfileCostly}, {0}))

Spec == Init /\ [][Next]_vars

\* Recording on a richer set of snapshots, with at most one observer.
NextAlerts ==
    \/ TickStep
    \/ CallbackStep({"cb_ok"}, 1)
    \/ RecordStep(SnapshotInputs(now, {"campaign_1"},
                                 {ProfileBase, ProfileDrop35, ProfileEmpty}, {0})
                  \cup SnapshotInputs(now, {"campaign_2"}, {ProfileBase}, {0})
                  \cup SnapshotInputs(now, {"campaign_1"}, {ProfileBase},
                                      {2 * HoursPerDay}))

SpecAlerts == Init /\ [][NextAlerts]_vars

\* The alert rule of _check_performance_alerts on one metric, as a function of the
\* metric, its current value and its comparison value (None: the metric has no
\* entry in comparison_metrics). Current values 0, 5, .. 5 * SevCurrentMax against a
\* comparison value of 100 give every swing from -100 to +300 percent in steps of 5.
SevCurrentMax == 80
SevInputs ==
    [metric_type : {"roas", "cpa", "ctr", "conversion_rate", "cost"},
     current_value : {RInt(5 * k) : k \in 0..SevCurrentMax} \cup {Inf},
     comparison : {None, Some(Zero), Some(RInt(100))}]

InitSeverity ==
    /\ TrackerInit
    /\ AttrIdle
    /\ sev_in \in {Some(i) : i \in SevInputs}
    /\ sev_out = None
    /\ MonIdle

\* One pass of the loop body over metrics_to_check
CheckMetric ==
    /\ sev_in # None
    /\ sev_out = None
    /\ sev_out' = Some(AlertRule(sev_in[1].metric_type, sev_in[1].current_value,
                                 sev_in[1].comparison # None,
                                 IF sev_in[1].comparison # None
                                 THEN sev_in[1].comparison[1] ELSE Zero))
    /\ UNCHANGED <<trackerVars, attrVars, sev_in, monVars>>

NextSeverity == CheckMetric

SpecSeverity == InitSeverity /\ [][NextSeverity]_vars

(***************************************************************************)
(* Properties of the tracker                                               *)
(***************************************************************************)
\* A step that is one record_campaign_snapshot call; the snapshot it recorded.
IsRecordStep == Len(recorded') = Len(recorded) + 1
RecordedSnapshot == recorded'[Len(recorded')]
\* The alerts the step appended
NewAlerts == SubSeq(alerts', Len(alerts) + 1, Len(alerts'))

Min(a, b) == IF a <= b THEN a ELSE b

\* C2: after every record call the history holds at most Capacity snapshots, and
\* they are exactly the most recently recorded ones in recording order: the
\* oldest are evicted, the one just recorded never is.
C2_HistoryIsNewestSuffix ==
    /\ Len(snapshots) = Min(Len(recorded), Capacity)
    /\ \A i \in 1..Len(snapshots) :
          snapshots[i] = recorded[Len(recorded) - Len(snapshots) + i]

C2_Witness_Evicted ==
    /\ Len(recorded) = Capacity + 1
    /\ Len(snapshots) = Capacity
    /\ recorded[1] # recorded[Len(recorded)]
    /\ snapshots[Len(snapshots)] = recorded[Len(recorded)]

\* The invocations C3 expects: alert by alert, and within one alert the
\* observers by position of registration.
ExpectedCalls(new, callbacks) ==
    [x \in 1..(Len(new) * Len(callbacks)) |->
        LET k == ((x - 1) \div Len(callbacks)) + 1
            i == ((x - 1) % Len(callbacks)) + 1
        IN  [callback |-> callbacks[i], position |-> i, alert |-> new[k]]]

\* C3: every alert a record call creates is handed to each registered observer
\* exactly once, within the call, in the order of registration.
C3_ObserversNotifiedInOrder ==
    [][IsRecordStep =>
          /\ notified' = ExpectedCalls(NewAlerts, alert_callbacks)
          /\ ~ret'.raised]_vars

C3_Witness_TwoAlertsTwoObservers ==
    /\ op.name = "record_campaign_snapshot"
    /\ Len(alert_callbacks) = 2
    /\ alert_callbacks[1] # alert_callbacks[2]
    /\ Len(notified) = 4
    /\ notified[1].alert # notified[3].alert

\* The metrics of the recorded snapshot for which the alert rule yields an alert
AlertingMetrics(snapshot, snaps, t) ==
    LET comparison == ComparisonSnapshots(snaps, snapshot.campaign_id, t)
    IN  IF comparison = <<>> THEN {}
        ELSE { m \in {MetricsToCheck[k] : k \in 1..Len(MetricsToCheck)} :
                  AlertFor(snapshot, m, ComparisonMetrics(comparison), t) # None }

\* C4: when an observer raises, the record call still returns normally, the
\* observers registered after it are still invoked for that alert, the alert stays
\* in the alert list, the snapshot stays in the history and the remaining metrics of
\* the snapshot are still evaluated.
C4_ObserverFailureIsContained ==
    [][(IsRecordStep /\ \E i \in 1..Len(alert_callbacks) : CallbackRaises(alert_callbacks[i])) =>
          /\ ~ret'.raised
          /\ snapshots'[Len(snapshots')] = RecordedSnapshot
          /\ {NewAlerts[k].metric_type : k \in 1..Len(NewAlerts)}
                = AlertingMetrics(RecordedSnapshot, Append(snapshots, RecordedSnapshot), now)
          /\ \A k \in 1..Len(NewAlerts) : \A i \in 1..Len(alert_callbacks) :
                \E x \in 1..Len(notified') :
                    /\ notified'[x].position = i
                    /\ notified'[x].alert = NewAlerts[k]]_vars

C4_Witness_RaisingObserverFirst ==
    /\ op.name = "record_campaign_snapshot"
    /\ ~ret.raised
    /\ Len(alert_callbacks) = 2
    /\ CallbackRaises(alert_callbacks[1])
    /\ Len(notified) = 4
    /\ notified[1].callback = "cb_raise"
    /\ notified[2].callback = "cb_ok"
    /\ notified[2].alert = notified[1].alert
    /\ notified[3].alert # notified[1].alert
    /\ Len(alerts) >= 2

\* The campaign's snapshots among snaps stamped 24 to 48 hours before t
PriorDay(snaps, campaign_id, t) ==
    SelectSeq(snaps, LAMBDA s:
        s.campaign_id = campaign_id /\ t - 48 <= s.timestamp /\ s.timestamp < t - 24)

\* The values of a metric that enter its prior-day average: every value, but for
\* ROAS only the positive ones and for CPA only the finite ones
AveragedValues(window, metric_type) ==
    LET all == MetricValues(window, metric_type)
    IN  IF metric_type = "roas" THEN SelectSeq(all, LAMBDA v: v.n > 0)
        ELSE IF metric_type = "cpa" THEN SelectSeq(all, LAMBDA v: v.d # 0)
        ELSE all

\* The prior-day average of a metric, None when nothing enters it
PriorDayAverage(snaps, campaign_id, t, metric_type) ==
    LET values == AveragedValues(PriorDay(snaps, campaign_id, t), metric_type)
    IN  IF values = <<>> THEN None ELSE Some(Mean(values))

\* A metric is within its thresholds when it has no (or a zero) prior-day average
\* or its swing against the average stays short of the metric's low threshold.
WithinThresholds(metric_type, current_value, average) ==
    \/ average = None
    \/ /\ average # None
       /\ \/ average[1] = Zero
          \/ LET swing == VariancePct(current_value, average[1])
                 low == RInt(DefaultThresholds[metric_type].low)
             IN  IF metric_type \in {"cpa", "cost"} THEN RLt(swing, low) ELSE RGt(swing, low)

\* C5: with the default thresholds, recording a snapshot whose ROAS is 35% below
\* the campaign's prior-day average ROAS, every other checked metric being within
\* its thresholds, appends exactly one alert, of severity high and metric ROAS.
C5_RoasDrop35GivesOneHighAlert ==
    [][(/\ IsRecordStep
        /\ LET s == RecordedSnapshot
               hist == Append(snapshots, s)
               average == PriorDayAverage(hist, s.campaign_id, now, "roas")
           IN  /\ average # None
               /\ roas(s) = RMul(Rat(65, 100), average[1])
               /\ \A m \in {"cpa", "ctr", "conversion_rate", "cost"} :
                     WithinThresholds(m, MetricValue(s, m),
                                      PriorDayAverage(hist, s.campaign_id, now, m)))
       => /\ Len(NewAlerts) = 1
          /\ NewAlerts[1].severity = "high"
          /\ NewAlerts[1].metric_type = "roas"]_vars

C5_Witness_RoasDrop35 ==
    /\ op.name = "record_campaign_snapshot"
    /\ roas(op.arg[1]) = Rat(26, 10)
    /\ Len(alerts) = 1
    /\ alerts[1].metric_type = "roas"
    /\ alerts[1].severity = "high"
    /\ alerts[1].variance_percentage = RInt(-35)
    /\ alerts[1].threshold_value = RInt(4)

\* C7 as claimed: the baseline is the plain mean over the campaign's stored
\* snapshots of the 24 to 48 hours before, and without such a snapshot a record
\* call appends no alert and invokes no observer.
C7_Claimed_PlainMeanBaseline ==
    [][IsRecordStep =>
          LET s == RecordedSnapshot
              window == PriorDay(snapshots, s.campaign_id, now)
          IN  /\ window = <<>> => (NewAlerts = <<>> /\ notified' = <<>>)
              /\ \A k \in 1..Len(NewAlerts) :
                    /\ window # <<>>
                    /\ NewAlerts[k].threshold_value
                          = Mean(MetricValues(window, NewAlerts[k].metric_type))]_vars

\* C7 (amended): the baseline of a metric is the mean of that metric over the
\* campaign's stored snapshots, the one being recorded included, stamped in the 24
\* to 48 hours before the time of the call, where for ROAS only positive values and
\* for CPA only finite values enter the mean; when the history holds no snapshot of
\* the campaign in that window, a record call appends no alert and invokes no
\* observer.
C7_BaselineIsFilteredPriorDayMean ==
    [][IsRecordStep =>
          LET s == RecordedSnapshot
              hist == Append(snapshots, s)
          IN  /\ PriorDay(snapshots, s.campaign_id, now) = <<>>
                    => (NewAlerts = <<>> /\ notified' = <<>>)
              /\ \A k \in 1..Len(NewAlerts) :
                    LET average == PriorDayAverage(hist, s.campaign_id, now,
                                                   NewAlerts[k].metric_type)
                    IN  /\ average # None
                        /\ NewAlerts[k].threshold_value = average[1]
                        /\ NewAlerts[k].current_value
                              = MetricValue(s, NewAlerts[k].metric_type)]_vars

\* An alert whose baseline is the mean of two different prior-day values, handed
\* to an observer
C7_Witness_MeanOfTwo ==
    /\ op.name = "record_campaign_snapshot"
    /\ Len(notified) >= 1
    /\ \E k \in 1..Len(alerts) :
          /\ alerts[k].metric_type = "cost"
          /\ alerts[k].threshold_value = RInt(50)
          /\ alerts[k].timestamp = now

\* The most severe tier whose threshold the swing has reached, "none" when it has
\* reached none; table maps a tier to its threshold in percent, and a negative
\* low threshold says that the metric alerts on decreases.
TierReached(swing, table) ==
    LET reached(tier) == IF table.low < 0 THEN RLe(swing, RInt(table[tier]))
                         ELSE RGe(swing, RInt(table[tier]))
    IN  IF reached("critical") THEN "critical"
        ELSE IF reached("high") THEN "high"
        ELSE IF reached("medium") THEN "medium"
        ELSE IF reached("low") THEN "low"
        ELSE "none"

\* The alert rule was applied to a metric with a nonzero current value and a
\* nonzero baseline.
SevEvaluated ==
    /\ sev_out # None
    /\ sev_in[1].current_value # Zero
    /\ sev_in[1].comparison \notin {None, Some(Zero)}

SevSwing ==
    LET current == sev_in[1].current_value
        baseline == sev_in[1].comparison[1]
    IN  Rat((current.n * baseline.d - baseline.n * current.d) * 100 * baseline.d,
            current.d * baseline.d * baseline.n)

\* C6 as claimed: ROAS, CTR and conversion rate alert at swings of -10 / -20 / -30 /
\* -50 percent or below, CPA and cost at +10 / +25 / +50 / +100 percent or above.
C6_Claimed_UniformThresholds ==
    SevEvaluated =>
        sev_out[1].severity =
            TierReached(SevSwing,
                IF sev_in[1].metric_type \in {"roas", "ctr", "conversion_rate"}
                THEN [low |-> -10, medium |-> -20, high |-> -30, critical |-> -50]
                ELSE [low |-> 10, medium |-> 25, high |-> 50, critical |-> 100])

\* C6 (amended): with the default thresholds, a metric whose current value is
\* nonzero and whose baseline exists and is nonzero gets the most severe tier its
\* swing has reached, the tiers low / medium / high / critical being reached at
\* -10 / -20 / -30 / -50 percent or below for ROAS, -15 / -30 / -45 / -60 for CTR,
\* -10 / -20 / -35 / -50 for conversion rate, and at +10 / +25 / +50 / +100 percent
\* or above for CPA, +20 / +50 / +100 / +200 for cost; a swing that reaches no tier
\* (a favourable one in particular) gives no alert, and so does a metric whose
\* current value is zero or whose baseline is zero or missing.
C6_SeverityByMetricThresholds ==
    sev_out # None =>
        IF SevEvaluated
        THEN /\ sev_out[1].variance_pct = SevSwing
             /\ sev_out[1].severity =
                  TierReached(SevSwing,
                     CASE sev_in[1].metric_type = "roas" ->
                            [low |-> -10, medium |-> -20, high |-> -30, critical |-> -50]
                       [] sev_in[1].metric_type = "ctr" ->
                            [low |-> -15, medium |-> -30, high |-> -45, critical |-> -60]
                       [] sev_in[1].metric_type = "conversion_rate" ->
                            [low |-> -10, medium |-> -20, high |-> -35, critical |-> -50]
                       [] sev_in[1].metric_type = "cpa" ->
                            [low |-> 10, medium |-> 25, high |-> 50, critical |-> 100]
                       [] sev_in[1].metric_type = "cost" ->
                            [low |-> 20, medium |-> 50, high |-> 100, critical |-> 200])
        ELSE sev_out[1].severity = "none"

\* CTR exactly 45% below its baseline is rated high
C6_Witness_CtrAtHighThreshold ==
    /\ SevEvaluated
    /\ sev_in[1].metric_type = "ctr"
    /\ SevSwing = RInt(-45)
    /\ sev_out[1].severity = "high"

(***************************************************************************)
(* AttributionModelBuilder: data                                           *)
(***************************************************************************)
\* AttributionModel members
AttributionModel ==
    {"first_touch", "last_touch", "linear", "time_decay", "position_based",
     "data_driven", "markov_chain", "shapley_value"}

\* Timestamps of touchpoints and conversions are counted in half days, so that
\* timedelta.days rounds down.
TicksPerDay == 2

\* timedelta.days of (later - earlier)
Days(later, earlier) == (later - earlier) \div TicksPerDay

\* TouchPoint (the fields the attribution models read)
TouchPoint(timestamp, channel, campaign, cost) ==
    [timestamp |-> timestamp, channel |-> channel, campaign |-> campaign, cost |-> cost]

SearchA(timestamp) == TouchPoint(timestamp, "paid_search", "camp_a", 2)
SearchB(timestamp) == TouchPoint(timestamp, "paid_search", "camp_b", 1)
SocialB(timestamp) == TouchPoint(timestamp, "social_media", "camp_b", 0)
EmailC(timestamp) == TouchPoint(timestamp, "email", "camp_c", 3)
DisplayD(timestamp) == TouchPoint(timestamp, "display", "camp_d", 1)

\* The timestamp of a touchpoint that was given none (timestamp=None)
NoTimestamp == -1

EmailUnstamped == TouchPoint(NoTimestamp, "email", "camp_c", 3)

\* CustomerJourney (the fields the attribution models read)
CustomerJourney(touchpoints, conversion_timestamp, conversion_value, is_converted) ==
    [touchpoints |-> touchpoints, conversion_timestamp |-> conversion_timestamp,
     conversion_value |-> conversion_value, is_converted |-> is_converted]

\* The journeys a caller may pass.
JSingle == CustomerJourney(<<SearchA(0)>>, Some(1), 1, TRUE)
JPair == CustomerJourney(<<SocialB(0), SearchA(2)>>, Some(4), 2, TRUE)
JTriple == CustomerJourney(<<SearchA(0), SocialB(1), SearchB(3)>>, Some(3), 1, TRUE)
JQuad == CustomerJourney(<<SearchA(0), SocialB(2), EmailC(2), SearchB(4)>>, Some(4), 2, TRUE)
JLong == CustomerJourney(<<SearchA(0), SocialB(20)>>, Some(24), 1, TRUE)
JLostSocial == CustomerJourney(<<SocialB(0)>>, None, 0, FALSE)
JLostPair == CustomerJourney(<<SearchA(0), SearchB(2)>>, None, 0, FALSE)
JNoTouch == CustomerJourney(<<>>, Some(0), 1, TRUE)
JNoStamp == CustomerJourney(<<SearchA(0)>>, None, 1, TRUE)

JourneyInputs ==
    {JSingle, JPair, JTriple, JQuad, JLong, JLostSocial, JLostPair, JNoTouch, JNoStamp}

\* Journeys with a touchpoint of malformed type: its timestamp is None
JBadStamp == CustomerJourney(<<SearchA(0), EmailUnstamped>>, Some(2), 2, TRUE)
JBadStampLost == CustomerJourney(<<EmailUnstamped>>, None, 0, FALSE)

\* A journey whose conversion value exceeds the cost of both of its channels
JRich == CustomerJourney(<<SearchA(0), DisplayD(1)>>, Some(2), 8, TRUE)

\* Bound of the exploration: journeys per call
MaxJourneys == 2

RECURSIVE SeqsUpTo(_, _)
SeqsUpTo(S, n) ==
    IF n = 0 THEN {<<>>}
    ELSE LET shorter == SeqsUpTo(S, n - 1)
         IN  shorter \cup {Append(s, x) : s \in {q \in shorter : Len(q) = n - 1}, x \in S}

\* CustomerJourney.unique_channels, as a set
unique_channels(journey) ==
    {journey.touchpoints[i].channel : i \in 1..Len(journey.touchpoints)}

\* dict.get(key, 0)
DictGet(dict, key) == IF key \in DOMAIN dict THEN dict[key] ELSE Zero

\* dict[key] = dict.get(key, 0) + amount
DictAdd(dict, key, amount) ==
    IF key \in DOMAIN dict THEN [dict EXCEPT ![key] = RAdd(@, amount)]
    ELSE [k \in DOMAIN dict \cup {key} |-> IF k = key THEN amount ELSE dict[k]]

\* The empty dict
EmptyDict == [k \in {} |-> Zero]

\* sum(dict.values())
RECURSIVE DictSum(_)
DictSum(dict) ==
    IF DOMAIN dict = {} THEN Zero
    ELSE LET k == CHOOSE x \in DOMAIN dict : TRUE
         IN  RAdd(dict[k], DictSum([x \in DOMAIN dict \ {k} |-> dict[x]]))

\* if total > 0: {k: v/total for k, v in dict.items()}
Normalize(dict, total) ==
    IF RGt(total, Zero) THEN [k \in DOMAIN dict |-> RDiv(dict[k], total)] ELSE dict

\* A credit is a touchpoint with the amount credited to it. The attribution loops
\* add each credit to the touchpoint's channel and to its campaign.
Credit(touchpoint, amount) == [touchpoint |-> touchpoint, amount |-> amount]

RECURSIVE AddCredits(_, _, _)
AddCredits(dict, credits, field) ==
    IF credits = <<>> THEN dict
    ELSE AddCredits(DictAdd(dict, credits[1].touchpoint[field], credits[1].amount),
                    Tail(credits), field)

(***************************************************************************)
(* AttributionModelBuilder: the rule-based models                          *)
(***************************************************************************)
\* What one pass of a model's loop over the journeys contributes: the credits it
\* adds to the two mappings and the amount it adds to total_value.
Contribution(credits, value) == [credits |-> credits, value |-> value]
NoContribution == Contribution(<<>>, Zero)

\* _first_touch_attribution, loop body
FirstTouchJourney(journey) ==
    IF journey.is_converted /\ journey.touchpoints # <<>>
    THEN Contribution(<<Credit(journey.touchpoints[1], RInt(journey.conversion_value))>>,
                      RInt(journey.conversion_value))
    ELSE NoContribution

\* _last_touch_attribution, loop body
LastTouchJourney(journey) ==
    IF journey.is_converted /\ journey.touchpoints # <<>>
    THEN Contribution(<<Credit(journey.touchpoints[Len(journey.touchpoints)],
                               RInt(journey.conversion_value))>>,
                      RInt(journey.conversion_value))
    ELSE NoContribution

\* LinearJourney that credits every touchpoint with the whole conversion value
LinearJourneyWholeValue(journey) ==
    IF journey.is_converted /\ journey.touchpoints # <<>>
    THEN Contribution([i \in 1..Len(journey.touchpoints) |->
                          Credit(journey.touchpoints[i], RInt(journey.conversion_value))],
                      RInt(journey.conversion_value))
    ELSE NoContribution

\* _linear_attribution, loop body
LinearJourney(journey) ==
    IF journey.is_converted /\ journey.touchpoints # <<>>
    THEN LET credit_per_touch ==
                 RDiv(RInt(journey.conversion_value), RInt(Len(journey.touchpoints)))
         IN  Contribution([i \in 1..Len(journey.touchpoints) |->
                              Credit(journey.touchpoints[i], credit_per_touch)],
                          RInt(journey.conversion_value))
    ELSE NoContribution

\* The decay factors a caller may pass: 0, the default 0.1, and 1000
DecayFactors == {Zero, Rat(1, 10), RInt(1000)}

\* ExpNeg with the sign of the exponent lost: the weight grows with the days
ExpNegGrowing(decay_factor, days) ==
    IF decay_factor = Zero THEN One ELSE RInt(1 + days)

\* np.exp(-decay_factor * days) for days >= 0. exp(-0.1 * days) is given by the
\* nearest fraction of denominator at most 30, for up to 12 days; exp(-1000 * days)
\* underflows to 0.0 for every days >= 1.
ExpNeg(decay_factor, days) ==
    IF decay_factor = Zero \/ days = 0 THEN One
    ELSE IF decay_factor = RInt(1000) THEN Zero
    ELSE CASE days = 1 -> Rat(19, 21)
           [] days = 2 -> Rat(9, 11)
           [] days = 3 -> Rat(20, 27)
           [] days = 4 -> Rat(2, 3)
           [] days = 5 -> Rat(17, 28)
           [] days = 6 -> Rat(11, 20)
           [] days = 7 -> Rat(1, 2)
           [] days = 8 -> Rat(9, 20)
           [] days = 9 -> Rat(11, 27)
           [] days = 10 -> Rat(7, 19)
           [] days = 11 -> Rat(1, 3)
           [] days = 12 -> Rat(3, 10)

\* TimeDecayJourney with the hyperbolic weights 1 / (1 + days), whatever the factor
TimeDecayJourneyHyperbolic(journey, decay_factor) ==
    IF journey.is_converted /\ journey.touchpoints # <<>> /\ journey.conversion_timestamp # None
    THEN LET touchpoint_weights ==
                 [i \in 1..Len(journey.touchpoints) |->
                     Rat(1, 1 + Days(journey.conversion_timestamp[1],
                                     journey.touchpoints[i].timestamp))]
             total_weight == RSumSeq(touchpoint_weights)
         IN  Contribution(
                 [i \in 1..Len(journey.touchpoints) |->
                     Credit(journey.touchpoints[i],
                            RMul(RInt(journey.conversion_value),
                                 RDiv(touchpoint_weights[i], total_weight)))],
                 RInt(journey.conversion_value))
    ELSE NoContribution

\* _time_decay_attribution, loop body
TimeDecayJourney(journey, decay_factor) ==
    IF journey.is_converted /\ journey.touchpoints # <<>> /\ journey.conversion_timestamp # None
    THEN LET touchpoint_weights ==
                 [i \in 1..Len(journey.touchpoints) |->
                     ExpNeg(decay_factor, Days(journey.conversion_timestamp[1],
                                               journey.touchpoints[i].timestamp))]
             total_weight == RSumSeq(touchpoint_weights)
         IN  Contribution(
                 IF RGt(total_weight, Zero)
                 THEN [i \in 1..Len(journey.touchpoints) |->
                          Credit(journey.touchpoints[i],
                                 RMul(RInt(journey.conversion_value),
                                      RDiv(touchpoint_weights[i], total_weight)))]
                 ELSE <<>>,
                 RInt(journey.conversion_value))
    ELSE NoContribution

\* PositionBasedJourney without the two-touchpoint case: 40% first, 40% last
PositionBasedJourneyNoPairCase(journey) ==
    IF journey.is_converted /\ journey.touchpoints # <<>>
    THEN LET num_touches == Len(journey.touchpoints)
             value == RInt(journey.conversion_value)
             first_touch == journey.touchpoints[1]
             last_touch == journey.touchpoints[num_touches]
         IN  Contribution(
                 IF num_touches = 1 THEN <<Credit(first_touch, value)>>
                 ELSE <<Credit(first_touch, RMul(value, Rat(4, 10)))>>
                      \o [i \in 1..(num_touches - 2) |->
                             Credit(journey.touchpoints[i + 1],
                                    RDiv(RMul(value, Rat(2, 10)), RInt(num_touches - 2)))]
                      \o <<Credit(last_touch, RMul(value, Rat(4, 10)))>>,
                 value)
    ELSE NoContribution

\* _position_based_attribution, loop body
PositionBasedJourney(journey) ==
    IF journey.is_converted /\ journey.touchpoints # <<>>
    THEN LET num_touches == Len(journey.touchpoints)
             value == RInt(journey.conversion_value)
             first_touch == journey.touchpoints[1]
             last_touch == journey.touchpoints[num_touches]
         IN  Contribution(
                 IF num_touches = 1 THEN <<Credit(first_touch, value)>>
                 ELSE IF num_touches = 2
                 THEN <<Credit(first_touch, RMul(value, Rat(1, 2))),
                        Credit(last_touch, RMul(value, Rat(1, 2)))>>
                 ELSE LET middle_credit_per_touch ==
                              RDiv(RMul(value, Rat(2, 10)), RInt(num_touches - 2))
                      IN  <<Credit(first_touch, RMul(value, Rat(4, 10)))>>
                          \o [i \in 1..(num_touches - 2) |->
                                 Credit(journey.touchpoints[i + 1], middle_credit_per_touch)]
                          \o <<Credit(last_touch, RMul(value, Rat(4, 10)))>>,
                 value)
    ELSE NoContribution

\* The loop body of the rule-based model model_type
JourneyContribution(model_type, decay_factor, journey) ==
    CASE model_type = "first_touch" -> FirstTouchJourney(journey)
      [] model_type = "last_touch" -> LastTouchJourney(journey)
      [] model_type = "linear" -> LinearJourney(journey)
      [] model_type = "time_decay" -> TimeDecayJourney(journey, decay_factor)
      [] model_type = "position_based" -> PositionBasedJourney(journey)

\* The credits of all journeys, in loop order, and the final total_value
RECURSIVE AllCredits(_, _, _)
AllCredits(model_type, decay_factor, js) ==
    IF js = <<>> THEN <<>>
    ELSE JourneyContribution(model_type, decay_factor, js[1]).credits
         \o AllCredits(model_type, decay_factor, Tail(js))

RECURSIVE TotalValue(_, _, _)
TotalValue(model_type, decay_factor, js) ==
    IF js = <<>> THEN Zero
    ELSE RAdd(JourneyContribution(model_type, decay_factor, js[1]).value,
              TotalValue(model_type, decay_factor, Tail(js)))

\* Every touchpoint of every journey, with the journey it belongs to
RECURSIVE AllTouches(_)
AllTouches(js) ==
    IF js = <<>> THEN <<>>
    ELSE [i \in 1..Len(js[1].touchpoints) |->
             [touchpoint |-> js[1].touchpoints[i], journey |-> js[1]]]
         \o AllTouches(Tail(js))

\* _calculate_roi_by_channel: channel_costs and channel_revenue
RECURSIVE ChannelCosts(_, _)
ChannelCosts(dict, touches) ==
    IF touches = <<>> THEN dict
    ELSE ChannelCosts(DictAdd(dict, touches[1].touchpoint.channel,
                              RInt(touches[1].touchpoint.cost)),
                      Tail(touches))

RECURSIVE ChannelRevenue(_, _, _)
ChannelRevenue(dict, touches, channel_attribution) ==
    IF touches = <<>> THEN dict
    ELSE LET channel == touches[1].touchpoint.channel
             attributed_value == RMul(RInt(touches[1].journey.conversion_value),
                                      DictGet(channel_attribution, channel))
         IN  ChannelRevenue(IF touches[1].journey.is_converted
                            THEN DictAdd(dict, channel, attributed_value) ELSE dict,
                            Tail(touches), channel_attribution)

\* _calculate_roi_by_channel
CalculateRoiByChannel(js, channel_attribution) ==
    LET channel_costs == ChannelCosts(EmptyDict, AllTouches(js))
        channel_revenue == ChannelRevenue(EmptyDict, AllTouches(js), channel_attribution)
    IN  [channel \in DOMAIN channel_attribution |->
            LET cost == DictGet(channel_costs, channel)
                revenue == DictGet(channel_revenue, channel)
            IN  IF RGt(cost, Zero) THEN RDiv(RSub(revenue, cost), cost) ELSE Zero]

\* AttributionResult (without the confidence intervals and the fixed accuracy figures)
AttributionResult(model_type, channel_attribution, campaign_attribution, js) ==
    [raised |-> FALSE,
     model_type |-> model_type,
     channel_attribution |-> channel_attribution,
     campaign_attribution |-> campaign_attribution,
     roi_by_channel |-> CalculateRoiByChannel(js, channel_attribution)]

\* The common shape of _first_touch_, _last_touch_, _linear_, _time_decay_ and
\* _position_based_attribution: accumulate, normalise by total_value, report.
RuleBasedAttribution(js, model_type, decay_factor) ==
    LET credits == AllCredits(model_type, decay_factor, js)
        total_value == TotalValue(model_type, decay_factor, js)
    IN  AttributionResult(model_type,
                          Normalize(AddCredits(EmptyDict, credits, "channel"), total_value),
                          Normalize(AddCredits(EmptyDict, credits, "campaign"), total_value),
                          js)

FirstTouchAttribution(js) == RuleBasedAttribution(js, "first_touch", Zero)
LastTouchAttribution(js) == RuleBasedAttribution(js, "last_touch", Zero)
LinearAttribution(js) == RuleBasedAttribution(js, "linear", Zero)
\* conversion_timestamp - touchpoint.timestamp raises TypeError on a touchpoint
\* without timestamp, in a journey that the loop of _time_decay_attribution enters
TimeDecayRaises(js) ==
    \E i \in 1..Len(js) :
        /\ js[i].is_converted /\ js[i].touchpoints # <<>> /\ js[i].conversion_timestamp # None
        /\ \E k \in 1..Len(js[i].touchpoints) : js[i].touchpoints[k].timestamp = NoTimestamp

TimeDecayAttribution(js, decay_factor) ==
    IF TimeDecayRaises(js) THEN [raised |-> TRUE, exception |-> "TypeError"]
    ELSE RuleBasedAttribution(js, "time_decay", decay_factor)
PositionBasedAttribution(js) == RuleBasedAttribution(js, "position_based", Zero)

(***************************************************************************)
(* AttributionModelBuilder: Markov chain, Shapley value, data driven       *)
(***************************************************************************)
\* The touchpoints of the converted journeys, each credited with a fixed amount per
\* journey: the "simplified campaign attribution" loops
RECURSIVE ConvertedTouchCredits(_, _)
ConvertedTouchCredits(js, by_value) ==
    IF js = <<>> THEN <<>>
    ELSE (IF js[1].is_converted
          THEN [i \in 1..Len(js[1].touchpoints) |->
                   Credit(js[1].touchpoints[i],
                          IF by_value THEN RInt(js[1].conversion_value) ELSE One)]
          ELSE <<>>)
         \o ConvertedTouchCredits(Tail(js), by_value)

RECURSIVE CreditTotal(_)
CreditTotal(credits) ==
    IF credits = <<>> THEN Zero ELSE RAdd(credits[1].amount, CreditTotal(Tail(credits)))

\* all_channels: the channels of all touchpoints of all journeys
AllChannels(js) == UNION {unique_channels(js[i]) : i \in 1..Len(js)}

\* _markov_chain_attribution: the removal effect of every channel that some journey
\* lacks, normalised by the total effect. (The transition counts that the method
\* also collects are never read.)
MarkovChannelAttribution(js) ==
    LET total_conversions == Cardinality({i \in 1..Len(js) : js[i].is_converted})
        without(channel) == {i \in 1..Len(js) : channel \notin unique_channels(js[i])}
        removal_effect(channel) ==
            LET conversions_without_channel ==
                    Cardinality({i \in without(channel) : js[i].is_converted})
                effect == total_conversions - conversions_without_channel
            IN  RInt(IF effect > 0 THEN effect ELSE 0)
        effects == [channel \in {c \in AllChannels(js) : without(c) # {}} |->
                       removal_effect(channel)]
    IN  Normalize(effects, DictSum(effects))

MarkovChainAttribution(js) ==
    LET credits == ConvertedTouchCredits(js, FALSE)
    IN  AttributionResult("markov_chain",
                          MarkovChannelAttribution(js),
                          Normalize(AddCredits(EmptyDict, credits, "campaign"),
                                    CreditTotal(credits)),
                          js)

\* _shapley_value_attribution: a converted journey's value in equal parts to the
\* channels present in it
RECURSIVE ShapleyContribution(_, _)
ShapleyContribution(js, channel) ==
    IF js = <<>> THEN Zero
    ELSE RAdd(IF js[1].is_converted /\ channel \in unique_channels(js[1])
              THEN RDiv(RInt(js[1].conversion_value),
                        RInt(Cardinality(unique_channels(js[1]))))
              ELSE Zero,
              ShapleyContribution(Tail(js), channel))

RECURSIVE ConvertedValue(_)
ConvertedValue(js) ==
    IF js = <<>> THEN Zero
    ELSE RAdd(IF js[1].is_converted THEN RInt(js[1].conversion_value) ELSE Zero,
              ConvertedValue(Tail(js)))

ShapleyValueAttribution(js) ==
    LET credits == ConvertedTouchCredits(js, TRUE)
    IN  AttributionResult("shapley_value",
                          Normalize([channel \in AllChannels(js) |->
                                        ShapleyContribution(js, channel)],
                                    ConvertedValue(js)),
                          Normalize(AddCredits(EmptyDict, credits, "campaign"),
                                    CreditTotal(credits)),
                          js)

\* _prepare_ml_data builds one row of X per journey; below MinMlRows rows
\* _data_driven_attribution hands over to _position_based_attribution. The code
\* asks for 100 rows; the threshold is scaled down so that lists of MaxJourneys
\* journeys reach the fitted branch.
MinMlRows == 2

\* What LogisticRegression.fit may do: raise, or leave coefficients that are all
\* zero or all of absolute value 1. A call that does not reach fit is NotFitted.
FitOutcomes == {"fit_raises", "zero_coef", "unit_coef"}
NotFitted == "not_fitted"

\* y = [1 if journey.is_converted else 0] holds one class only; fit then raises
SingleClass(js) ==
    \A i, k \in 1..Len(js) : js[i].is_converted = js[k].is_converted

\* The fitted branch of _data_driven_attribution: a channel's share is its
\* coefficient over the sum of all coefficients (those of the two journey-level
\* features included), or an equal share when that sum is 0; every campaign gets
\* an equal share.
DataDrivenFitted(js, fit) ==
    LET channel_map == AllChannels(js)
        features == Cardinality(channel_map) + 2
        total_campaigns ==
            UNION {{js[i].touchpoints[k].campaign : k \in 1..Len(js[i].touchpoints)} :
                      i \in 1..Len(js)}
    IN  AttributionResult("data_driven",
                          [channel \in channel_map |->
                              IF fit = "unit_coef" THEN Rat(1, features)
                              ELSE Rat(1, Cardinality(channel_map))],
                          [campaign \in total_campaigns |->
                              Rat(1, Cardinality(total_campaigns))],
                          js)

\* _prepare_ml_data reads journey_duration of every journey, which raises TypeError
\* on a touchpoint without timestamp
PrepareMlDataRaises(js) ==
    \E i \in 1..Len(js) :
        \E k \in 1..Len(js[i].touchpoints) : js[i].touchpoints[k].timestamp = NoTimestamp

\* DataDrivenAttribution that raises on too few rows instead of falling back
DataDrivenAttributionRaises(js, fit) ==
    IF PrepareMlDataRaises(js) THEN PositionBasedAttribution(js)
    ELSE IF Len(js) < MinMlRows THEN [raised |-> TRUE, exception |-> "ValueError"]
    ELSE IF fit = "fit_raises" THEN PositionBasedAttribution(js)
    ELSE DataDrivenFitted(js, fit)

\* DataDrivenAttribution that lets the exception of fit through
DataDrivenAttributionNoCatch(js, fit) ==
    IF PrepareMlDataRaises(js) THEN [raised |-> TRUE, exception |-> "TypeError"]
    ELSE IF Len(js) < MinMlRows THEN PositionBasedAttribution(js)
    ELSE IF fit = "fit_raises" THEN [raised |-> TRUE, exception |-> "ValueError"]
    ELSE DataDrivenFitted(js, fit)

\* _data_driven_attribution
DataDrivenAttribution(js, fit) ==
    IF PrepareMlDataRaises(js) THEN PositionBasedAttribution(js)
    ELSE IF Len(js) < MinMlRows THEN PositionBasedAttribution(js)
    ELSE IF fit = "fit_raises" THEN PositionBasedAttribution(js)
    ELSE DataDrivenFitted(js, fit)

\* BuildAttributionModel that takes an unknown tag for the linear model
BuildAttributionModelDefaulting(js, model_type, time_decay_factor, fit) ==
    CASE model_type = "first_touch" -> FirstTouchAttribution(js)
      [] model_type = "last_touch" -> LastTouchAttribution(js)
      [] model_type = "time_decay" -> TimeDecayAttribution(js, time_decay_factor)
      [] model_type = "position_based" -> PositionBasedAttribution(js)
      [] model_type = "data_driven" -> DataDrivenAttribution(js, fit)
      [] model_type = "markov_chain" -> MarkovChainAttribution(js)
      [] model_type = "shapley_value" -> ShapleyValueAttribution(js)
      [] OTHER -> LinearAttribution(js)

\* build_attribution_model
BuildAttributionModel(js, model_type, time_decay_factor, fit) ==
    CASE model_type = "first_touch" -> FirstTouchAttribution(js)
      [] model_type = "last_touch" -> LastTouchAttribution(js)
      [] model_type = "linear" -> LinearAttribution(js)
      [] model_type = "time_decay" -> TimeDecayAttribution(js, time_decay_factor)
      [] model_type = "position_based" -> PositionBasedAttribution(js)
      [] model_type = "data_driven" -> DataDrivenAttribution(js, fit)
      [] model_type = "markov_chain" -> MarkovChainAttribution(js)
      [] model_type = "shapley_value" -> ShapleyValueAttribution(js)
      [] OTHER -> [raised |-> TRUE, exception |-> "ValueError"]

\* The model tags a caller may pass: the members of AttributionModel and a value
\* that is none of them
ModelTags == AttributionModel \cup {"unknown_model"}

\* time_decay_factor: float = 0.1
DefaultDecayFactor == Rat(1, 10)

InitAttr ==
    /\ TrackerInit
    /\ SevIdle
    /\ journeys \in SeqsUpTo(JourneyInputs, MaxJourneys)
    /\ result = None
    /\ MonIdle

\* The outcomes of fit that a call of model_type on js may meet
FitsOf(js, model_type) ==
    IF model_type = "data_driven" /\ Len(js) >= MinMlRows /\ ~PrepareMlDataRaises(js)
    THEN (IF SingleClass(js) THEN {"fit_raises"} ELSE FitOutcomes)
    ELSE {NotFitted}

\* A call of build_attribution_model on the journeys. The builder keeps no state
\* between calls, so that one call per behaviour shows every call.
BuildStep ==
    /\ result = None
    /\ \E model_type \in ModelTags, time_decay_factor \in DecayFactors :
          /\ model_type # "time_decay" => time_decay_factor = DefaultDecayFactor
          /\ \E fit \in FitsOf(journeys, model_type) :
                result' = Some([model_type |-> model_type,
                                time_decay_factor |-> time_decay_factor,
                                fit |-> fit,
                                outcome |-> BuildAttributionModel(journeys, model_type,
                                                                  time_decay_factor, fit)])
    /\ UNCHANGED <<trackerVars, sevVars, journeys, monVars>>

NextAttr == BuildStep

SpecAttr == InitAttr /\ [][NextAttr]_vars

\* models_to_test of compare_attribution_models, in its order
ModelsToTest ==
    <<"first_touch", "last_touch", "linear", "time_decay", "position_based", "data_driven">>

\* results[key] = value
DictPut(dict, key, value) ==
    [k \in DOMAIN dict \cup {key} |-> IF k = key THEN value ELSE dict[k]]

\* The call that compare_attribution_models makes for one model: the default decay
\* factor, and the classifier's behaviour for data_driven
BuildForComparison(js, model_type, fit) ==
    BuildAttributionModel(js, model_type, DefaultDecayFactor,
                          IF model_type = "data_driven" THEN fit ELSE NotFitted)

\* The loop of compare_attribution_models without the try/except: the first model
\* that raises ends the batch
RECURSIVE CompareLoopNoCatch(_, _, _, _)
CompareLoopNoCatch(js, fit, models, results) ==
    IF models = <<>> THEN [raised |-> FALSE, results |-> results]
    ELSE LET built == BuildForComparison(js, models[1], fit)
         IN  IF built.raised THEN [raised |-> TRUE, exception |-> built.exception]
             ELSE CompareLoopNoCatch(js, fit, Tail(models),
                                     DictPut(results, models[1], built))

\* The loop of compare_attribution_models: a model that raises is logged and
\* left out
RECURSIVE CompareLoop(_, _, _, _)
CompareLoop(js, fit, models, results) ==
    IF models = <<>> THEN [raised |-> FALSE, results |-> results]
    ELSE LET built == BuildForComparison(js, models[1], fit)
         IN  CompareLoop(js, fit, Tail(models),
                         IF built.raised THEN results
                         ELSE DictPut(results, models[1], built))

\* compare_attribution_models
CompareAttributionModels(js, fit) == CompareLoop(js, fit, ModelsToTest, <<>>)

\* The journeys of the comparison runs: well-formed ones and malformed ones
CompareInputs == {JSingle, JPair, JQuad, JLostSocial, JNoStamp, JBadStamp, JBadStampLost}

InitCompare ==
    /\ TrackerInit
    /\ SevIdle
    /\ journeys \in SeqsUpTo(CompareInputs, MaxJourneys)
    /\ result = None
    /\ MonIdle

\* A call of compare_attribution_models on the journeys
CompareStep ==
    /\ result = None
    /\ \E fit \in FitsOf(journeys, "data_driven") :
          result' = Some([model_type |-> "compare_attribution_models",
                          time_decay_factor |-> DefaultDecayFactor,
                          fit |-> fit,
                          outcome |-> CompareAttributionModels(journeys, fit)])
    /\ UNCHANGED <<trackerVars, sevVars, journeys, monVars>>

NextCompare ==
    \/ BuildStep
    \/ CompareStep

SpecCompare == InitCompare /\ [][NextCompare]_vars

\* optimize_budget_allocation: efficiency_scores, in the order of roi_by_channel
RECURSIVE EfficiencyScores(_, _, _, _)
EfficiencyScores(attribution_result, current_budget, channels, scores) ==
    IF channels = {} THEN scores
    ELSE LET channel == CHOOSE c \in channels : TRUE
             roi == attribution_result.roi_by_channel[channel]
             attribution_weight == DictGet(attribution_result.channel_attribution, channel)
         IN  EfficiencyScores(attribution_result, current_budget, channels \ {channel},
                              IF RGt(roi, Zero) /\ channel \in DOMAIN current_budget
                              THEN DictPut(scores, channel, RMul(roi, attribution_weight))
                              ELSE scores)

\* optimize_budget_allocation without the 2% minimum for unscored channels
OptimizeBudgetAllocationNoFloor(attribution_result, current_budget, total_budget) ==
    LET efficiency_scores ==
            EfficiencyScores(attribution_result, current_budget,
                             DOMAIN attribution_result.roi_by_channel, <<>>)
        total_efficiency == DictSum(efficiency_scores)
    IN  IF RGt(total_efficiency, Zero)
        THEN [raised |-> FALSE,
              allocation |->
                  [channel \in DOMAIN current_budget |->
                      IF channel \in DOMAIN efficiency_scores
                      THEN RMul(total_budget,
                                RDiv(efficiency_scores[channel], total_efficiency))
                      ELSE Zero]]
        ELSE IF DOMAIN current_budget = {}
        THEN [raised |-> TRUE, exception |-> "ZeroDivisionError"]
        ELSE [raised |-> FALSE,
              allocation |->
                  [channel \in DOMAIN current_budget |->
                      RDiv(total_budget, RInt(Cardinality(DOMAIN current_budget)))]]

\* optimize_budget_allocation
OptimizeBudgetAllocation(attribution_result, current_budget, total_budget) ==
    LET efficiency_scores ==
            EfficiencyScores(attribution_result, current_budget,
                             DOMAIN attribution_result.roi_by_channel, <<>>)
        total_efficiency == DictSum(efficiency_scores)
    IN  IF RGt(total_efficiency, Zero)
        THEN [raised |-> FALSE,
              allocation |->
                  [channel \in DOMAIN current_budget |->
                      IF channel \in DOMAIN efficiency_scores
                      THEN RMul(total_budget,
                                RDiv(efficiency_scores[channel], total_efficiency))
                      ELSE RMul(total_budget, Rat(2, 100))]]
        ELSE IF DOMAIN current_budget = {}
        THEN [raised |-> TRUE, exception |-> "ZeroDivisionError"]
        ELSE [raised |-> FALSE,
              allocation |->
                  [channel \in DOMAIN current_budget |->
                      RDiv(total_budget, RInt(Cardinality(DOMAIN current_budget)))]]

\* The inputs of the budget runs: journeys, the models that produce the
\* attribution result, budgets over some channels, totals
BudgetInputs == {JSingle, JPair, JQuad, JRich, JLostSocial, JLostPair}
BudgetModels == {"last_touch", "linear", "shapley_value"}
BudgetChannels == {"paid_search", "social_media", "display"}
CurrentBudgets == {[channel \in S |-> RInt(10)] : S \in SUBSET BudgetChannels}
TotalBudgets == {Zero, RInt(100)}

InitBudget ==
    /\ TrackerInit
    /\ SevIdle
    /\ journeys \in SeqsUpTo(BudgetInputs, MaxJourneys)
    /\ result = None
    /\ MonIdle

\* A call of optimize_budget_allocation with the attribution result of a model
\* on the journeys
OptimizeStep ==
    /\ result = None
    /\ \E model \in BudgetModels, current_budget \in CurrentBudgets,
           total_budget \in TotalBudgets :
          LET attribution_result ==
                  BuildAttributionModel(journeys, model, DefaultDecayFactor, NotFitted)
          IN  result' = Some([model_type |-> "optimize_budget_allocation",
                              attribution_result |-> attribution_result,
                              current_budget |-> current_budget,
                              total_budget |-> total_budget,
                              outcome |-> OptimizeBudgetAllocation(attribution_result,
                                                                   current_budget,
                                                                   total_budget)])
    /\ UNCHANGED <<trackerVars, sevVars, journeys, monVars>>

NextBudget == OptimizeStep

SpecBudget == InitBudget /\ [][NextBudget]_vars

(***************************************************************************)
(* Properties of the attribution models                                    *)
(***************************************************************************)
\* The call made and what it returned
Called == result # None
Request == result[1]
Outcome == result[1].outcome

\* C1 as claimed: for every non-empty list of converted journeys (each with a
\* touchpoint, a positive conversion value and a conversion timestamp) and each of
\* first_touch, last_touch, linear, time_decay, position_based, markov_chain and
\* shapley_value, the values of the returned channel_attribution sum to 1.
C1_Claimed_SharesSumToOne ==
    (/\ Called
     /\ journeys # <<>>
     /\ \A i \in 1..Len(journeys) :
           /\ journeys[i].is_converted
           /\ journeys[i].touchpoints # <<>>
           /\ journeys[i].conversion_value > 0
           /\ journeys[i].conversion_timestamp # None
     /\ Request.model_type \in {"first_touch", "last_touch", "linear", "time_decay",
                                "position_based", "markov_chain", "shapley_value"})
    => DictSum(Outcome.channel_attribution) = One

\* C9: build_attribution_model called with a tag that is no member of
\* AttributionModel raises the unsupported-model error (Python's ValueError) and
\* returns no result.
C9_UnknownModelRaises ==
    Called =>
        (Request.model_type \notin AttributionModel
            <=> (Outcome.raised /\ Outcome.exception = "ValueError"
                 /\ DOMAIN Outcome = {"raised", "exception"}))

C9_Witness_UnknownModelRaised ==
    /\ Called
    /\ journeys # <<>>
    /\ Request.model_type = "unknown_model"
    /\ Outcome.raised

\* C10 as claimed: build_attribution_model called with an empty list of journeys
\* fails, for every model type.
C10_Claimed_EmptyJourneysRaise ==
    (Called /\ journeys = <<>> /\ Request.model_type \in AttributionModel)
    => Outcome.raised

\* C10 (amended): build_attribution_model called with an empty list of journeys
\* does not fail for any model type: it returns a result of that model type
\* (position_based for data_driven) whose channel attribution, campaign
\* attribution and ROI mappings are empty.
C10_EmptyJourneysGiveEmptyResult ==
    (Called /\ journeys = <<>> /\ Request.model_type \in AttributionModel)
    => /\ ~Outcome.raised
       /\ Outcome.model_type = IF Request.model_type = "data_driven" THEN "position_based"
                               ELSE Request.model_type
       /\ DOMAIN Outcome.channel_attribution = {}
       /\ DOMAIN Outcome.campaign_attribution = {}
       /\ DOMAIN Outcome.roi_by_channel = {}

C10_Witness_EmptyJourneysDataDriven ==
    /\ Called
    /\ journeys = <<>>
    /\ Request.model_type = "data_driven"
    /\ ~Outcome.raised
    /\ Outcome.model_type = "position_based"

\* The journeys passed are at least one and none of them is converted
NoneConverted ==
    /\ journeys # <<>>
    /\ \A i \in 1..Len(journeys) : ~journeys[i].is_converted

\* The channels that have a touchpoint in the journeys passed, and those of them
\* that some journey passed has no touchpoint of
ChannelsSeen ==
    UNION {{journeys[i].touchpoints[k].channel : k \in 1..Len(journeys[i].touchpoints)} :
              i \in 1..Len(journeys)}

ChannelsMissedSomewhere ==
    {c \in ChannelsSeen :
        \E i \in 1..Len(journeys) :
            \A k \in 1..Len(journeys[i].touchpoints) : journeys[i].touchpoints[k].channel # c}

\* The total cost of the touchpoints of a channel in the journeys passed
RECURSIVE CostOfChannel(_, _)
CostOfChannel(js, channel) ==
    IF js = <<>> THEN 0
    ELSE (IF js[1].touchpoints = <<>> THEN 0
          ELSE (IF js[1].touchpoints[1].channel = channel
                THEN js[1].touchpoints[1].cost ELSE 0)
               + CostOfChannel(<<[js[1] EXCEPT !.touchpoints = Tail(@)]>>, channel))
         + CostOfChannel(Tail(js), channel)

\* C11 as claimed: on a non-empty list of journeys none of which is converted,
\* every attribution model returns a result (no division error) whose channel
\* attribution and campaign attribution mappings have no entries at all.
C11_Claimed_NoConversionGivesEmptyMappings ==
    (Called /\ NoneConverted /\ Request.model_type \in AttributionModel)
    => /\ ~Outcome.raised
       /\ DOMAIN Outcome.channel_attribution = {}
       /\ DOMAIN Outcome.campaign_attribution = {}

\* What the code returns on a non-empty list of journeys none of which is
\* converted: a result (no division error, no NaN) whose campaign attribution is
\* empty and whose channel attribution holds only zeros: no entry at all for
\* first_touch, last_touch, linear, time_decay, position_based and data_driven
\* (which falls back to position_based), an entry 0 for every channel with a
\* touchpoint for shapley_value, and an entry 0 for every channel that some
\* journey lacks for markov_chain. The ROI of a channel with an entry is -1 when
\* its touchpoints cost anything and 0 otherwise.
NoConversionGivesZeroShares ==
    (Called /\ NoneConverted /\ Request.model_type \in AttributionModel)
    => /\ ~Outcome.raised
       /\ DOMAIN Outcome.campaign_attribution = {}
       /\ DOMAIN Outcome.channel_attribution =
              CASE Request.model_type = "shapley_value" -> ChannelsSeen
                [] Request.model_type = "markov_chain" -> ChannelsMissedSomewhere
                [] OTHER -> {}
       /\ \A c \in DOMAIN Outcome.channel_attribution :
              /\ Outcome.channel_attribution[c] = Zero
              /\ Outcome.roi_by_channel[c] =
                     IF CostOfChannel(journeys, c) > 0 THEN RInt(-1) ELSE Zero

\* Shapley value on two unconverted journeys of different channels: both channels
\* get an entry 0
C11_Witness_ShapleyZeroEntries ==
    /\ Called
    /\ NoneConverted
    /\ Request.model_type = "shapley_value"
    /\ ~Outcome.raised
    /\ DOMAIN Outcome.channel_attribution = {"social_media", "paid_search"}
    /\ \A c \in DOMAIN Outcome.channel_attribution : Outcome.channel_attribution[c] = Zero

\* The journeys that _time_decay_attribution looks at: all but the converted ones
\* that carry no conversion timestamp
RECURSIVE Stamped(_)
Stamped(js) ==
    IF js = <<>> THEN <<>>
    ELSE (IF js[1].is_converted /\ js[1].conversion_timestamp = None THEN <<>> ELSE <<js[1]>>)
         \o Stamped(Tail(js))

\* A time_decay call with decay factor 0
DecayZeroCalled ==
    Called /\ Request.model_type = "time_decay" /\ Request.time_decay_factor = Zero

\* C12 as claimed: time_decay with decay factor 0 returns the same channel
\* attribution and the same campaign attribution as linear attribution, for every
\* list of journeys.
C12_Claimed_DecayZeroIsLinear ==
    DecayZeroCalled
    => /\ Outcome.channel_attribution = LinearAttribution(journeys).channel_attribution
       /\ Outcome.campaign_attribution = LinearAttribution(journeys).campaign_attribution

\* C12 (amended): time_decay with decay factor 0 returns the channel attribution
\* and the campaign attribution that linear attribution returns for the same
\* journeys without the converted journeys that have no conversion timestamp; the
\* two models agree on every list in which each converted journey has one.
C12_DecayZeroIsLinearOnStamped ==
    DecayZeroCalled
    => /\ Outcome.channel_attribution
              = LinearAttribution(Stamped(journeys)).channel_attribution
       /\ Outcome.campaign_attribution
              = LinearAttribution(Stamped(journeys)).campaign_attribution

\* Decay factor 0 on a three-touchpoint journey whose touchpoints are not all the
\* same number of days before the conversion, next to a converted journey
\* without a conversion timestamp
C12_Witness_DecayZeroMixedDays ==
    /\ DecayZeroCalled
    /\ journeys = <<JTriple, JNoStamp>>
    /\ Outcome.channel_attribution = LinearAttribution(<<JTriple>>).channel_attribution
    /\ Outcome.channel_attribution # LinearAttribution(journeys).channel_attribution
    /\ DOMAIN Outcome.channel_attribution = {"paid_search", "social_media"}

\* The journeys that the rule-based loops credit: converted, with a touchpoint
Credited(journey) == journey.is_converted /\ journey.touchpoints # <<>>

\* The number of touchpoints of a journey whose channel or campaign is key
TouchCount(journey, field, key) ==
    Cardinality({k \in 1..Len(journey.touchpoints) : journey.touchpoints[k][field] = key})

\* The channels or campaigns of the touchpoints of the credited journeys
CreditedKeys(field) ==
    UNION {{journeys[i].touchpoints[k][field] : k \in 1..Len(journeys[i].touchpoints)} :
              i \in {x \in 1..Len(journeys) : Credited(journeys[x])}}

\* The sum of the conversion values of the credited journeys
CreditedValue ==
    RSumSeq([i \in 1..Len(journeys) |->
                IF Credited(journeys[i]) THEN RInt(journeys[i].conversion_value) ELSE Zero])

\* A share as returned: the unnormalised credit over the total credited value,
\* or the unnormalised credit itself when that total is not positive
Share(credit) == IF RGt(CreditedValue, Zero) THEN RDiv(credit, CreditedValue) ELSE credit

\* conversion_value / N for each touchpoint of key, summed over the credited journeys
LinearCredit(field, key) ==
    RSumSeq([i \in 1..Len(journeys) |->
                IF Credited(journeys[i])
                THEN RMul(RInt(TouchCount(journeys[i], field, key)),
                          Rat(journeys[i].conversion_value, Len(journeys[i].touchpoints)))
                ELSE Zero])

\* C13: linear attribution credits each touchpoint of a converted journey with
\* conversion_value / N, N being the journey's number of touchpoints; the credit
\* of a channel (of a campaign) before normalisation is the sum of these credits
\* over its touchpoints in converted journeys, and the returned share is that
\* credit over the total converted value.
C13_LinearCreditsValueOverN ==
    (Called /\ Request.model_type = "linear")
    => /\ ~Outcome.raised
       /\ DOMAIN Outcome.channel_attribution = CreditedKeys("channel")
       /\ DOMAIN Outcome.campaign_attribution = CreditedKeys("campaign")
       /\ \A c \in CreditedKeys("channel") :
              Outcome.channel_attribution[c] = Share(LinearCredit("channel", c))
       /\ \A c \in CreditedKeys("campaign") :
              Outcome.campaign_attribution[c] = Share(LinearCredit("campaign", c))

\* Linear attribution of a three-touchpoint journey of value 1 and a two-touchpoint
\* journey of value 2: paid_search is credited 1/3 + 1/3 + 1 of the total 3
C13_Witness_LinearTwoJourneys ==
    /\ Called
    /\ Request.model_type = "linear"
    /\ journeys = <<JTriple, JPair>>
    /\ LinearCredit("channel", "paid_search") = Rat(5, 3)
    /\ Outcome.channel_attribution["paid_search"] = Rat(5, 9)
    /\ Outcome.channel_attribution["social_media"] = Rat(4, 9)
    /\ Outcome.campaign_attribution["camp_a"] = Rat(4, 9)

\* The part of a journey's value that position-based attribution gives to the
\* k-th of n touchpoints
PositionPart(n, k) ==
    IF n = 1 THEN One
    ELSE IF n = 2 THEN Rat(1, 2)
    ELSE IF k = 1 \/ k = n THEN Rat(4, 10)
    ELSE Rat(2, 10 * (n - 2))

\* The position-based credits of the touchpoints of key, summed over the credited
\* journeys
PositionCredit(field, key) ==
    RSumSeq([i \in 1..Len(journeys) |->
                IF Credited(journeys[i])
                THEN RSumSeq([k \in 1..Len(journeys[i].touchpoints) |->
                                 IF journeys[i].touchpoints[k][field] = key
                                 THEN RMul(RInt(journeys[i].conversion_value),
                                           PositionPart(Len(journeys[i].touchpoints), k))
                                 ELSE Zero])
                ELSE Zero])

\* C14: position-based attribution of a converted journey of value V credits V to
\* the only touchpoint, or 0.5 V to each of two touchpoints, or 0.4 V to the first,
\* 0.4 V to the last and 0.2 V / (n - 2) to each of the n - 2 middle touchpoints
\* (n >= 3), so that the credits of one journey total V; the returned shares are
\* the sums of these credits over the total converted value.
C14_PositionBasedSplit ==
    (Called /\ Request.model_type = "position_based")
    => /\ ~Outcome.raised
       /\ \A i \in 1..Len(journeys) :
              Credited(journeys[i])
              => LET credits == PositionBasedJourney(journeys[i]).credits
                     n == Len(journeys[i].touchpoints)
                 IN  /\ Len(credits) = n
                     /\ \A k \in 1..n :
                            /\ credits[k].touchpoint = journeys[i].touchpoints[k]
                            /\ credits[k].amount = RMul(RInt(journeys[i].conversion_value),
                                                        PositionPart(n, k))
                     /\ CreditTotal(credits) = RInt(journeys[i].conversion_value)
       /\ DOMAIN Outcome.channel_attribution = CreditedKeys("channel")
       /\ DOMAIN Outcome.campaign_attribution = CreditedKeys("campaign")
       /\ \A c \in CreditedKeys("channel") :
              Outcome.channel_attribution[c] = Share(PositionCredit("channel", c))
       /\ \A c \in CreditedKeys("campaign") :
              Outcome.campaign_attribution[c] = Share(PositionCredit("campaign", c))

\* Position-based attribution of a four-touchpoint journey of value 2 next to a
\* two-touchpoint journey of value 2: 0.8 + 0.8 + 1 of the total 4 to paid_search,
\* 0.2 + 1 to social_media and 0.2 to email
C14_Witness_FourAndTwoTouchpoints ==
    /\ Called
    /\ Request.model_type = "position_based"
    /\ journeys = <<JQuad, JPair>>
    /\ Outcome.channel_attribution["paid_search"] = Rat(13, 20)
    /\ Outcome.channel_attribution["social_media"] = Rat(3, 10)
    /\ Outcome.channel_attribution["email"] = Rat(1, 20)

\* A time_decay call with a positive decay factor
DecayCalled ==
    Called /\ Request.model_type = "time_decay" /\ RGt(Request.time_decay_factor, Zero)

\* The journeys that time decay credits, and the whole days between the k-th
\* touchpoint of one of them and its conversion
DecayCredited(journey) == Credited(journey) /\ journey.conversion_timestamp # None

DaysBefore(journey, k) ==
    Days(journey.conversion_timestamp[1], journey.touchpoints[k].timestamp)

\* The credit that the time-decay loop gives to the k-th touchpoint of a journey
\* (nothing when the loop credits no touchpoint of the journey)
DecayCredit(journey, k) ==
    LET credits == TimeDecayJourney(journey, Request.time_decay_factor).credits
    IN  IF credits = <<>> THEN Zero ELSE credits[k].amount

\* C15 as claimed: time decay with a positive decay factor gives, within one
\* converted journey, strictly more credit to a touchpoint that is fewer whole
\* days before the conversion than to one that is more days before it, and equal
\* credit to touchpoints the same number of days before the conversion.
C15_Claimed_FewerDaysStrictlyMore ==
    DecayCalled
    => \A i \in 1..Len(journeys) :
           DecayCredited(journeys[i])
           => \A a, b \in 1..Len(journeys[i].touchpoints) :
                  /\ DaysBefore(journeys[i], a) < DaysBefore(journeys[i], b)
                         => RGt(DecayCredit(journeys[i], a), DecayCredit(journeys[i], b))
                  /\ DaysBefore(journeys[i], a) = DaysBefore(journeys[i], b)
                         => DecayCredit(journeys[i], a) = DecayCredit(journeys[i], b)

\* C15 (amended): time decay with a positive decay factor gives, within one
\* converted journey, never less credit to a touchpoint that is fewer whole days
\* before the conversion than to one that is more days before it, strictly more
\* when the weight exp(-factor * days) of the nearer touchpoint is the greater
\* float (as with factor 0.1: SearchA day 0, SocialB day 10, conversion day 12
\* gives SearchA credit < SocialB credit), and equal credit to touchpoints the
\* same number of days before the conversion. Weights that underflow to 0.0
\* (factor 1000, a day or more before the conversion) give credit 0, and a journey
\* all of whose weights underflow credits no touchpoint.
C15_FewerDaysNeverLess ==
    DecayCalled
    => \A i \in 1..Len(journeys) :
           DecayCredited(journeys[i])
           => \A a, b \in 1..Len(journeys[i].touchpoints) :
                  LET days_a == DaysBefore(journeys[i], a)
                      days_b == DaysBefore(journeys[i], b)
                      credit_a == DecayCredit(journeys[i], a)
                      credit_b == DecayCredit(journeys[i], b)
                  IN  /\ days_a < days_b => RGe(credit_a, credit_b)
                      /\ (days_a < days_b /\ Request.time_decay_factor = Rat(1, 10))
                             => RGt(credit_a, credit_b)
                      /\ days_a = days_b => credit_a = credit_b
                      /\ (Request.time_decay_factor = RInt(1000) /\ days_a >= 1)
                             => credit_a = Zero

\* The spec's scenario: SearchA 12 days and SocialB 2 days before the conversion,
\* factor 0.1: the share of paid_search is less than the share of social_media
C15_Witness_ScenarioRecentWeighsMore ==
    /\ DecayCalled
    /\ Request.time_decay_factor = Rat(1, 10)
    /\ journeys = <<JLong>>
    /\ DaysBefore(JLong, 1) = 12
    /\ DaysBefore(JLong, 2) = 2
    /\ RLt(Outcome.channel_attribution["paid_search"],
           Outcome.channel_attribution["social_media"])
    /\ RLt(DecayCredit(JLong, 1), DecayCredit(JLong, 2))

\* max(0, total_conversions - number of converted journeys that lack the channel)
RemovalEffect(channel) ==
    LET total_conversions == Cardinality({i \in 1..Len(journeys) : journeys[i].is_converted})
        lacking == {i \in 1..Len(journeys) :
                       /\ journeys[i].is_converted
                       /\ \A k \in 1..Len(journeys[i].touchpoints) :
                              journeys[i].touchpoints[k].channel # channel}
    IN  IF total_conversions > Cardinality(lacking)
        THEN total_conversions - Cardinality(lacking) ELSE 0

RECURSIVE RemovalEffectSum(_)
RemovalEffectSum(channels) ==
    IF channels = {} THEN 0
    ELSE LET c == CHOOSE x \in channels : TRUE
         IN  RemovalEffect(c) + RemovalEffectSum(channels \ {c})

\* C16 as claimed: markov_chain attribution gives every channel that occurs in
\* the journeys the credit max(0, total_conversions - converted journeys lacking
\* the channel), renormalised over all channels; a channel present in every
\* journey has the full effect total_conversions before renormalisation.
C16_Claimed_EveryChannelGetsRemovalEffect ==
    (Called /\ Request.model_type = "markov_chain")
    => /\ DOMAIN Outcome.channel_attribution = ChannelsSeen
       /\ \A c \in ChannelsSeen :
              Outcome.channel_attribution[c] =
                  IF RemovalEffectSum(ChannelsSeen) > 0
                  THEN Rat(RemovalEffect(c), RemovalEffectSum(ChannelsSeen))
                  ELSE RInt(RemovalEffect(c))

\* Two converted journeys, paid_search in both and social_media in one: the
\* result has no entry for paid_search and gives everything to social_media
C16_Witness_ChannelOfEveryJourneyDropped ==
    /\ Called
    /\ Request.model_type = "markov_chain"
    /\ journeys = <<JSingle, JPair>>
    /\ RemovalEffect("paid_search") = 2
    /\ RemovalEffect("social_media") = 1
    /\ DOMAIN Outcome.channel_attribution = {"social_media"}
    /\ Outcome.channel_attribution["social_media"] = One

\* A data_driven call that does not get a fitted classifier: too few rows, or
\* fit raised
FellBack ==
    /\ Called
    /\ Request.model_type = "data_driven"
    /\ (Len(journeys) < MinMlRows \/ Request.fit = "fit_raises")

\* C17: a data_driven request on fewer journeys than the minimum sample does not
\* fail: it returns exactly the result of position_based attribution on the same
\* journeys (same channel and campaign attribution and ROI, model type
\* position_based); the same holds when fitting the classifier raises. A request
\* whose classifier is fitted returns a data_driven result.
C17_DataDrivenFallsBackToPositionBased ==
    /\ FellBack
          => /\ ~Outcome.raised
             /\ Outcome = PositionBasedAttribution(journeys)
             /\ Outcome.model_type = "position_based"
             /\ DOMAIN Outcome.channel_attribution = CreditedKeys("channel")
             /\ \A c \in CreditedKeys("channel") :
                    Outcome.channel_attribution[c] = Share(PositionCredit("channel", c))
             /\ DOMAIN Outcome.campaign_attribution = CreditedKeys("campaign")
             /\ \A c \in CreditedKeys("campaign") :
                    Outcome.campaign_attribution[c] = Share(PositionCredit("campaign", c))
    /\ (Called /\ Request.model_type = "data_driven" /\ ~FellBack)
          => (~Outcome.raised /\ Outcome.model_type = "data_driven")

\* Enough rows, fit raises: the position-based shares come back
C17_Witness_FitRaisedFallback ==
    /\ FellBack
    /\ journeys = <<JQuad, JLostSocial>>
    /\ Len(journeys) >= MinMlRows
    /\ Request.fit = "fit_raises"
    /\ Outcome.model_type = "position_based"
    /\ Outcome.channel_attribution["paid_search"] = Rat(4, 5)

\* A call of compare_attribution_models, and the models whose own call raises
Compared == Called /\ Request.model_type = "compare_attribution_models"

RaisingModels ==
    {m \in {ModelsToTest[i] : i \in 1..Len(ModelsToTest)} :
        BuildForComparison(journeys, m, Request.fit).raised}

\* C18: compare_attribution_models never raises; the mapping it returns holds
\* exactly the models of the batch whose computation did not raise, each with the
\* result that build_attribution_model gives for it, whatever the other models
\* did.
C18_FailingModelIsLeftOut ==
    Compared
    => /\ ~Outcome.raised
       /\ DOMAIN Outcome.results
              = {ModelsToTest[i] : i \in 1..Len(ModelsToTest)} \ RaisingModels
       /\ \A m \in DOMAIN Outcome.results :
              /\ ~Outcome.results[m].raised
              /\ Outcome.results[m] = BuildForComparison(journeys, m, Request.fit)

\* time_decay raises on a touchpoint without timestamp: the five other models,
\* those after it in the batch included, are returned
C18_Witness_TimeDecayLeftOut ==
    /\ Compared
    /\ journeys = <<JBadStamp, JPair>>
    /\ RaisingModels = {"time_decay"}
    /\ DOMAIN Outcome.results
           = {"first_touch", "last_touch", "linear", "position_based", "data_driven"}
    /\ Outcome.results["data_driven"].model_type = "position_based"
    /\ Outcome.results["linear"].channel_attribution["paid_search"] = Rat(1, 2)

\* The sum of the conversion values of the converted journeys
TotalConvertedValue ==
    RSumSeq([i \in 1..Len(journeys) |->
                IF journeys[i].is_converted THEN RInt(journeys[i].conversion_value) ELSE Zero])

\* (attributed revenue - cost) / cost of a channel, 0 without cost, the attributed
\* revenue being the channel's share of the total converted value
RoiOfShare(channel, share) ==
    LET cost == RInt(CostOfChannel(journeys, channel))
        attributed_revenue == RMul(TotalConvertedValue, share)
    IN  IF RGt(cost, Zero) THEN RDiv(RSub(attributed_revenue, cost), cost) ELSE Zero

\* C19 as claimed: the ROI reported for each attributed channel is
\* (attributed_revenue - total_touchpoint_cost) / total_touchpoint_cost, with the
\* cost summed over all the channel's touchpoints of all journeys and the
\* attributed revenue the total converted value times the channel's share; it is
\* 0 when the channel's total cost is 0. (Stated for lists in which every
\* converted journey has a touchpoint and a conversion timestamp.)
C19_Claimed_RoiFromShareOfTotalValue ==
    (/\ Called
     /\ Request.model_type \in AttributionModel
     /\ \A i \in 1..Len(journeys) :
           journeys[i].is_converted => DecayCredited(journeys[i]))
    => /\ ~Outcome.raised
       /\ DOMAIN Outcome.roi_by_channel = DOMAIN Outcome.channel_attribution
       /\ \A c \in DOMAIN Outcome.channel_attribution :
              Outcome.roi_by_channel[c] = RoiOfShare(c, Outcome.channel_attribution[c])

\* Linear attribution of one converted journey of value 1 with two paid_search
\* touchpoints (cost 2 and 1) among three: the share 2/3 of the value 1 would give
\* the ROI (2/3 - 3) / 3 = -7/9; the ROI reported is (4/3 - 3) / 3 = -5/9
C19_Witness_RevenueCountedPerTouchpoint ==
    /\ Called
    /\ Request.model_type = "linear"
    /\ journeys = <<JTriple>>
    /\ Outcome.channel_attribution["paid_search"] = Rat(2, 3)
    /\ RoiOfShare("paid_search", Rat(2, 3)) = Rat(-7, 9)
    /\ Outcome.roi_by_channel["paid_search"] = Rat(-5, 9)

\* A call of optimize_budget_allocation, and the total of ROI x attribution share
\* over the budgeted channels of positive ROI
OptimizeCalled == Called /\ Request.model_type = "optimize_budget_allocation"

RECURSIVE EfficiencyOver(_)
EfficiencyOver(channels) ==
    IF channels = {} THEN Zero
    ELSE LET c == CHOOSE x \in channels : TRUE
         IN  RAdd(RMul(Request.attribution_result.roi_by_channel[c],
                       Request.attribution_result.channel_attribution[c]),
                  EfficiencyOver(channels \ {c}))

TotalEfficiency ==
    EfficiencyOver({c \in DOMAIN Request.attribution_result.roi_by_channel
                              \cap DOMAIN Request.current_budget :
                       RGt(Request.attribution_result.roi_by_channel[c], Zero)})

\* The equal split of total_budget over the channels of current_budget
IsEqualSplit ==
    /\ ~Outcome.raised
    /\ DOMAIN Outcome.allocation = DOMAIN Request.current_budget
    /\ \A c \in DOMAIN Request.current_budget :
           Outcome.allocation[c]
               = RDiv(Request.total_budget, RInt(Cardinality(DOMAIN Request.current_budget)))

\* C20 as claimed: optimize_budget_allocation with total efficiency 0 returns,
\* without raising, total_budget / (number of channels) for every channel of
\* current_budget, for every current_budget including an empty one.
C20_Claimed_EqualSplitForEveryBudget ==
    (OptimizeCalled /\ TotalEfficiency = Zero) => IsEqualSplit

\* What the code does with total efficiency 0: the equal split for a non-empty
\* current_budget, ZeroDivisionError for an empty one
EqualSplitUnlessEmpty ==
    (OptimizeCalled /\ TotalEfficiency = Zero)
    => IF DOMAIN Request.current_budget = {}
       THEN Outcome.raised /\ Outcome.exception = "ZeroDivisionError"
       ELSE IsEqualSplit

\* An empty current_budget: total efficiency 0, the call raises
C20_Witness_EmptyBudgetRaises ==
    /\ OptimizeCalled
    /\ journeys = <<JQuad>>
    /\ DOMAIN Request.current_budget = {}
    /\ Request.total_budget = RInt(100)
    /\ TotalEfficiency = Zero
    /\ Outcome.raised

\* The budgeted channels that have an efficiency score (positive ROI), and the
\* score ROI x attribution share of one of them
ScoredChannels ==
    {c \in DOMAIN Request.attribution_result.roi_by_channel
               \cap DOMAIN Request.current_budget :
        RGt(Request.attribution_result.roi_by_channel[c], Zero)}

EfficiencyScore(c) ==
    RMul(Request.attribution_result.roi_by_channel[c],
         DictGet(Request.attribution_result.channel_attribution, c))

\* C21: optimize_budget_allocation with a positive total efficiency score returns,
\* without raising, exactly the channels of current_budget as keys; a channel
\* with an efficiency score gets total_budget x score / total score, and a
\* channel of current_budget without a score gets 2% of total_budget.
C21_ProportionalWithTwoPercentFloor ==
    (OptimizeCalled /\ RGt(TotalEfficiency, Zero))
    => /\ ~Outcome.raised
       /\ DOMAIN Outcome.allocation = DOMAIN Request.current_budget
       /\ \A c \in DOMAIN Request.current_budget :
              Outcome.allocation[c]
                  = IF c \in ScoredChannels
                    THEN RDiv(RMul(Request.total_budget, EfficiencyScore(c)),
                              TotalEfficiency)
                    ELSE RDiv(RMul(Request.total_budget, RInt(2)), RInt(100))

\* Two scored channels share a budget of 100 by their scores and an unscored
\* channel gets 2
C21_Witness_TwoScoredOneFloor ==
    /\ OptimizeCalled
    /\ RGt(TotalEfficiency, Zero)
    /\ Request.total_budget = RInt(100)
    /\ DOMAIN Request.current_budget = BudgetChannels
    /\ journeys = <<JRich>>
    /\ Request.attribution_result.model_type = "linear"
    /\ ScoredChannels = {"paid_search", "display"}
    /\ Outcome.allocation["paid_search"] = RInt(25)
    /\ Outcome.allocation["display"] = RInt(75)
    /\ Outcome.allocation["social_media"] = RInt(2)

\* The sum of the amounts handed out
AllocatedTotal == DictSum(Outcome.allocation)

\* C30 as claimed: for every non-empty current_budget and attribution result, the
\* amounts returned by optimize_budget_allocation sum to total_budget.
C30_Claimed_AllocationSumsToTotal ==
    (OptimizeCalled /\ DOMAIN Request.current_budget # {})
    => /\ ~Outcome.raised
       /\ AllocatedTotal = Request.total_budget

\* What the code hands out: total_budget when the total efficiency is 0 or
\* every budgeted channel has a score, and 2% of total_budget more for every
\* unscored channel otherwise
AllocationSumsToTotalPlusFloors ==
    (OptimizeCalled /\ DOMAIN Request.current_budget # {})
    => /\ ~Outcome.raised
       /\ AllocatedTotal
              = IF RGt(TotalEfficiency, Zero)
                THEN RAdd(Request.total_budget,
                          RMul(Request.total_budget,
                               Rat(2 * Cardinality(DOMAIN Request.current_budget
                                                      \ ScoredChannels), 100)))
                ELSE Request.total_budget

\* One scored channel takes the whole budget of 100 and two unscored channels
\* get 2 each on top of it
C30_Witness_FloorsOverTheTotal ==
    /\ OptimizeCalled
    /\ Request.total_budget = RInt(100)
    /\ DOMAIN Request.current_budget = BudgetChannels
    /\ Cardinality(ScoredChannels) = 1
    /\ AllocatedTotal = RInt(104)

(***************************************************************************)
(* ROITracker: the reporting operations                                    *)
(***************************************************************************)
\* sorted(pairs, key=lambda x: x[0]): a stable sort on the first component
RECURSIVE InsertByFirst(_, _)
InsertByFirst(sorted, x) ==
    IF sorted = <<>> THEN <<x>>
    ELSE IF sorted[1][1] <= x[1] THEN <<sorted[1]>> \o InsertByFirst(Tail(sorted), x)
    ELSE <<x>> \o sorted

RECURSIVE SortedByFirst(_)
SortedByFirst(pairs) ==
    IF pairs = <<>> THEN <<>>
    ELSE InsertByFirst(SortedByFirst(SubSeq(pairs, 1, Len(pairs) - 1)), pairs[Len(pairs)])

\* get_performance_trend without the final sort: the pairs in recording order
GetPerformanceTrendUnsorted(snaps, campaign_id, metric_type, days, t) ==
    LET relevant_snapshots ==
            SelectSeq(snaps, LAMBDA s:
                s.campaign_id = campaign_id /\ s.timestamp >= t - days * HoursPerDay)
    IN  [i \in 1..Len(relevant_snapshots) |->
            <<relevant_snapshots[i].timestamp,
              MetricValue(relevant_snapshots[i], metric_type)>>]

\* ROITracker.get_performance_trend: (timestamp, value) pairs at clock t
GetPerformanceTrend(snaps, campaign_id, metric_type, days, t) ==
    LET relevant_snapshots ==
            SelectSeq(snaps, LAMBDA s:
                s.campaign_id = campaign_id /\ s.timestamp >= t - days * HoursPerDay)
        trend_data == [i \in 1..Len(relevant_snapshots) |->
                          <<relevant_snapshots[i].timestamp,
                            MetricValue(relevant_snapshots[i], metric_type)>>]
    IN  SortedByFirst(trend_data)

\* The history a trend needs before detect_anomalies looks at it, the number of
\* trailing points it checks and the days it looks back
MinAnomalyPoints == 10
AnomalyTail == 7
AnomalyDays == 30

\* detect_anomalies checking every point of the trend, not the trailing ones
DetectAnomaliesWholeTrend(snaps, campaign_id, metric_type, sensitivity, t) ==
    LET trend_data == GetPerformanceTrend(snaps, campaign_id, metric_type, AnomalyDays, t)
    IN  IF Len(trend_data) < MinAnomalyPoints THEN <<>>
        ELSE LET values == [i \in 1..Len(trend_data) |-> trend_data[i][2]]
                 mean_value == Mean(values)
                 square(x) == RMul(x, x)
                 variance == Mean([i \in 1..Len(values) |->
                                      square(RSub(values[i], mean_value))])
                 is_anomaly(x) ==
                     RGt(square(RSub(x[2], mean_value)),
                         RMul(square(sensitivity), variance))
                 flagged == SelectSeq(trend_data, is_anomaly)
             IN  IF \E i \in 1..Len(values) : values[i].d = 0 THEN <<>>
                 ELSE [i \in 1..Len(flagged) |->
                          <<flagged[i][1], flagged[i][2],
                            IF RGt(flagged[i][2], mean_value) THEN "positive_spike"
                            ELSE "negative_drop">>]

\* ROITracker.detect_anomalies, for sensitivity >= 0. abs(value - mean) >
\* sensitivity * std is decided on the squares; an infinite value makes the mean
\* infinite and the deviation nan, and then no comparison succeeds.
DetectAnomalies(snaps, campaign_id, metric_type, sensitivity, t) ==
    LET trend_data == GetPerformanceTrend(snaps, campaign_id, metric_type, AnomalyDays, t)
    IN  IF Len(trend_data) < MinAnomalyPoints THEN <<>>
        ELSE LET values == [i \in 1..Len(trend_data) |-> trend_data[i][2]]
                 mean_value == Mean(values)
                 square(x) == RMul(x, x)
                 variance == Mean([i \in 1..Len(values) |->
                                      square(RSub(values[i], mean_value))])
                 last == LastN(trend_data, AnomalyTail)
                 is_anomaly(x) ==
                     RGt(square(RSub(x[2], mean_value)),
                         RMul(square(sensitivity), variance))
                 flagged == SelectSeq(last, is_anomaly)
             IN  IF \E i \in 1..Len(values) : values[i].d = 0 THEN <<>>
                 ELSE [i \in 1..Len(flagged) |->
                          <<flagged[i][1], flagged[i][2],
                            IF RGt(flagged[i][2], mean_value) THEN "positive_spike"
                            ELSE "negative_drop">>]

\* The campaign ids of snaps in the order of their first appearance: the key order
\* of campaign_data
RECURSIVE CampaignOrder(_, _)
CampaignOrder(snaps, seen) ==
    IF snaps = <<>> THEN <<>>
    ELSE IF snaps[1].campaign_id \in seen THEN CampaignOrder(Tail(snaps), seen)
    ELSE <<snaps[1].campaign_id>>
         \o CampaignOrder(Tail(snaps), seen \cup {snaps[1].campaign_id})

\* sum(s.metrics.get(metric, 0) for s in snaps)
RECURSIVE MetricTotal(_, _)
MetricTotal(snaps, metric) ==
    IF snaps = <<>> THEN 0
    ELSE MetricGet(snaps[1].metrics, metric) + MetricTotal(Tail(snaps), metric)

\* max(snaps, key=lambda x: x.timestamp): the first snapshot of the latest timestamp
RECURSIVE LatestSnapshot(_)
LatestSnapshot(snaps) ==
    IF Len(snaps) = 1 THEN snaps[1]
    ELSE LET rest == LatestSnapshot(Tail(snaps))
         IN  IF snaps[1].timestamp >= rest.timestamp THEN snaps[1] ELSE rest

\* One entry of the summary of generate_performance_summary
CampaignSummary(campaign_id, snaps) ==
    LET latest_snapshot == LatestSnapshot(snaps)
        total_cost == MetricTotal(snaps, "cost")
        total_revenue == MetricTotal(snaps, "revenue")
        total_conversions == MetricTotal(snaps, "conversions")
        total_clicks == MetricTotal(snaps, "clicks")
        total_impressions == MetricTotal(snaps, "impressions")
        avg_cpa == IF total_conversions > 0 THEN Rat(total_cost, total_conversions) ELSE Inf
    IN  [campaign_id |-> campaign_id,
         channel |-> latest_snapshot.channel,
         total_cost |-> total_cost,
         total_revenue |-> total_revenue,
         total_conversions |-> total_conversions,
         avg_roas |-> IF total_cost > 0 THEN Rat(total_revenue, total_cost) ELSE Zero,
         avg_cpa |-> IF avg_cpa # Inf THEN avg_cpa ELSE Zero,
         avg_ctr |-> IF total_impressions > 0 THEN Rat(total_clicks, total_impressions)
                     ELSE Zero,
         avg_conversion_rate |-> IF total_clicks > 0 THEN Rat(total_conversions, total_clicks)
                                 ELSE Zero,
         data_points |-> Len(snaps),
         last_updated |-> latest_snapshot.timestamp]

\* ROITracker.generate_performance_summary: the entries in the dict's key order
GeneratePerformanceSummary(snaps, time_period_hours, t) ==
    LET recent_snapshots == SelectSeq(snaps, LAMBDA s: s.timestamp >= t - time_period_hours)
        order == CampaignOrder(recent_snapshots, {})
    IN  [i \in 1..Len(order) |->
            CampaignSummary(order[i],
                            SelectSeq(recent_snapshots, LAMBDA s: s.campaign_id = order[i]))]

\* sorted(values)
RECURSIVE InsertValue(_, _)
InsertValue(sorted, x) ==
    IF sorted = <<>> THEN <<x>>
    ELSE IF RLe(sorted[1], x) THEN <<sorted[1]>> \o InsertValue(Tail(sorted), x)
    ELSE <<x>> \o sorted

RECURSIVE SortedValues(_)
SortedValues(values) ==
    IF values = <<>> THEN <<>>
    ELSE InsertValue(SortedValues(Tail(values)), values[1])

\* np.median of a non-empty list
Median(values) ==
    LET sorted == SortedValues(values)
        n == Len(sorted)
    IN  IF n % 2 = 1 THEN sorted[(n + 1) \div 2]
        ELSE RDiv(RAdd(sorted[n \div 2], sorted[n \div 2 + 1]), RInt(2))

\* The hours of the week that get_budget_optimization_recommendations looks back
WeekHours == 168

\* The rule of get_budget_optimization_recommendations for one campaign. median_cpa
\* is None when no campaign has a positive average CPA: np.median of the empty list
\* is nan, and every comparison with it is false.
Recommendation(roas_value, cpa_value, median_roas, median_cpa) ==
    LET cpa_below(factor) == median_cpa # None /\ RLt(cpa_value, RMul(median_cpa[1], factor))
        cpa_above(factor) == median_cpa # None /\ RGt(cpa_value, RMul(median_cpa[1], factor))
    IN  IF RGt(roas_value, RMul(median_roas, Rat(15, 10))) /\ cpa_below(Rat(7, 10))
        THEN [recommendation |-> "INCREASE_BUDGET", confidence_score |-> Rat(9, 10)]
        ELSE IF RGt(roas_value, RMul(median_roas, Rat(12, 10)))
        THEN [recommendation |-> "MODERATE_INCREASE", confidence_score |-> Rat(75, 100)]
        ELSE IF RLt(roas_value, RMul(median_roas, Rat(5, 10))) \/ cpa_above(RInt(2))
        THEN [recommendation |-> "DECREASE_BUDGET", confidence_score |-> Rat(85, 100)]
        ELSE IF RLt(roas_value, RMul(median_roas, Rat(8, 10)))
        THEN [recommendation |-> "OPTIMIZE", confidence_score |-> Rat(7, 10)]
        ELSE [recommendation |-> "MAINTAIN", confidence_score |-> Rat(6, 10)]

\* ROITracker.get_budget_optimization_recommendations: the entries in the dict's
\* key order (without the impact descriptions)
GetBudgetOptimizationRecommendations(snaps, t) ==
    LET summary == GeneratePerformanceSummary(snaps, WeekHours, t)
        roas_values == [i \in 1..Len(summary) |-> summary[i].avg_roas]
        cpa_values == SelectSeq([i \in 1..Len(summary) |-> summary[i].avg_cpa],
                                LAMBDA v: RGt(v, Zero))
        median_roas == Median(roas_values)
        median_cpa == IF cpa_values = <<>> THEN None ELSE Some(Median(cpa_values))
    IN  IF Len(summary) < 2 THEN <<>>
        ELSE [i \in 1..Len(summary) |->
                 LET rule == Recommendation(summary[i].avg_roas, summary[i].avg_cpa,
                                            median_roas, median_cpa)
                 IN  [campaign_id |-> summary[i].campaign_id,
                      recommendation |-> rule.recommendation,
                      confidence_score |-> rule.confidence_score,
                      current_roas |-> summary[i].avg_roas,
                      median_roas |-> median_roas,
                      current_cpa |-> summary[i].avg_cpa,
                      median_cpa |-> median_cpa]]

\* seq[:n]
FirstN(s, n) == IF Len(s) > n THEN SubSeq(s, 1, n) ELSE s

\* sorted(summary.items(), key=avg_roas, reverse=True): stable, best first
RECURSIVE InsertByRoas(_, _)
InsertByRoas(sorted, x) ==
    IF sorted = <<>> THEN <<x>>
    ELSE IF RGe(sorted[1].avg_roas, x.avg_roas)
    THEN <<sorted[1]>> \o InsertByRoas(Tail(sorted), x)
    ELSE <<x>> \o sorted

RECURSIVE SortedByRoas(_)
SortedByRoas(summary) ==
    IF summary = <<>> THEN <<>>
    ELSE InsertByRoas(SortedByRoas(SubSeq(summary, 1, Len(summary) - 1)),
                      summary[Len(summary)])

\* ROITracker._generate_performance_recommendations: what the section lists
GeneratePerformanceRecommendations(summary, snaps, t) ==
    IF summary = <<>> THEN None
    ELSE LET recommendations == GetBudgetOptimizationRecommendations(snaps, t)
             high_impact_recs ==
                 SelectSeq(recommendations, LAMBDA r:
                     /\ r.recommendation \in {"INCREASE_BUDGET", "DECREASE_BUDGET"}
                     /\ RGt(r.confidence_score, Rat(8, 10)))
             increase_budget ==
                 SelectSeq(recommendations, LAMBDA r:
                     r.recommendation \in {"INCREASE_BUDGET", "MODERATE_INCREASE"})
             decrease_budget ==
                 SelectSeq(recommendations, LAMBDA r: r.recommendation = "DECREASE_BUDGET")
         IN  Some([high_impact |-> [i \in 1..Len(FirstN(high_impact_recs, 3)) |->
                                       high_impact_recs[i].campaign_id],
                   reallocation |-> IF increase_budget # <<>> /\ decrease_budget # <<>>
                                    THEN Some(<<Len(increase_budget), Len(decrease_budget)>>)
                                    ELSE None])

\* ROITracker.generate_executive_dashboard: the figures the text reports, in the
\* order it reports them (number formatting is not modelled)
GenerateExecutiveDashboard(snaps, als, t) ==
    LET summary == GeneratePerformanceSummary(snaps, HoursPerDay, t)
        active_alerts == SelectSeq(als, LAMBDA a: ~a.is_resolved)
        critical_alerts == SelectSeq(active_alerts, LAMBDA a: a.severity = "critical")
        total_cost == RSumSeq([i \in 1..Len(summary) |-> RInt(summary[i].total_cost)])
        total_revenue == RSumSeq([i \in 1..Len(summary) |-> RInt(summary[i].total_revenue)])
        top_campaigns == FirstN(SortedByRoas(summary), 5)
    IN  [total_campaigns |-> Len(summary),
         active_alerts |-> Len(active_alerts),
         critical_alerts |-> Len(critical_alerts),
         portfolio |-> IF summary # <<>>
                       THEN Some([total_cost |-> total_cost, total_revenue |-> total_revenue,
                                  overall_roas |-> IF RGt(total_cost, Zero)
                                                   THEN RDiv(total_revenue, total_cost)
                                                   ELSE Zero])
                       ELSE None,
         top_campaigns |-> [i \in 1..Len(top_campaigns) |-> top_campaigns[i].campaign_id],
         critical_alert_lines |-> FirstN(critical_alerts, 5),
         recommendations |-> GeneratePerformanceRecommendations(summary, snaps, t)]

\* A reporting call: it returns value and leaves the tracker as it is.
Query(name, arg, value) ==
    /\ op' = [name |-> name, arg |-> Some(arg)]
    /\ ret' = [raised |-> FALSE, value |-> Some(value)]
    /\ UNCHANGED <<now, snapshots, alerts, alert_callbacks, recorded, notified>>

TrendStep(campaigns, metrics, days_set) ==
    /\ \E campaign_id \in campaigns, metric_type \in metrics, days \in days_set :
          Query("get_performance_trend", <<campaign_id, metric_type, days>>,
                GetPerformanceTrend(snapshots, campaign_id, metric_type, days, now))
    /\ UNCHANGED <<attrVars, sevVars, monVars>>

AnomalyStep(campaigns, metrics, sensitivities) ==
    /\ \E campaign_id \in campaigns, metric_type \in metrics, sensitivity \in sensitivities :
          Query("detect_anomalies", <<campaign_id, metric_type, sensitivity>>,
                DetectAnomalies(snapshots, campaign_id, metric_type, sensitivity, now))
    /\ UNCHANGED <<attrVars, sevVars, monVars>>

SummaryStep(hours_set) ==
    /\ \E time_period_hours \in hours_set :
          Query("generate_performance_summary", <<time_period_hours>>,
                GeneratePerformanceSummary(snapshots, time_period_hours, now))
    /\ UNCHANGED <<attrVars, sevVars, monVars>>

RecommendationsStep ==
    /\ Query("get_budget_optimization_recommendations", <<>>,
             GetBudgetOptimizationRecommendations(snapshots, now))
    /\ UNCHANGED <<attrVars, sevVars, monVars>>

DashboardStep ==
    /\ Query("generate_executive_dashboard", <<>>,
             GenerateExecutiveDashboard(snapshots, alerts, now))
    /\ UNCHANGED <<attrVars, sevVars, monVars>>

\* Every tracker operation, the reporting ones with their default arguments.
NextOps ==
    \/ TickStep
    \/ CallbackStep({"cb_ok"}, 1)
    \/ RecordStep(SnapshotInputs(now, {"campaign_1"}, {ProfileBase, ProfileCostly}, {0}))
    \/ ResolveStep
    \/ TrendStep({"campaign_1"}, {"roas"}, {7})
    \/ AnomalyStep({"campaign_1"}, {"roas"}, {RInt(2)})
    \/ SummaryStep({HoursPerDay})
    \/ RecommendationsStep
    \/ DashboardStep

SpecOps == Init /\ [][NextOps]_vars

\* One read of a derived ratio of a snapshot as the caller constructed it: every
\* stored metric is missing or one of a few amounts
RatioMetrics == {"roas", "cpa", "ctr", "conversion_rate"}
MetricAmounts == {-2, 0, 1, 3}
MetricDicts ==
    UNION {[present -> MetricAmounts] : present \in SUBSET StoredMetrics}
RatioInputs ==
    {[campaign_id |-> "campaign_1", channel |-> ChannelOf("campaign_1"),
      timestamp |-> 0, metrics |-> m] : m \in MetricDicts}

RatioStep ==
    /\ op.name = "__init__"
    /\ \E snapshot \in RatioInputs, metric_type \in RatioMetrics :
          Query(metric_type, snapshot, MetricValue(snapshot, metric_type))
    /\ UNCHANGED <<attrVars, sevVars, monVars>>

NextRatios == RatioStep

SpecRatios == Init /\ [][NextRatios]_vars

\* detect_anomalies on a tracker that has recorded up to MaxHistory snapshots
\* (fewer than its capacity): hourly ones of campaign_1 up to the clock, up to two
\* of them with twice the ROAS, and at most one that is not in line: back-dated
\* by a day, older than the 30 days, or of campaign_2
MaxHistory == 11
ProfileSpike ==
    [cost |-> 100, revenue |-> 800, impressions |-> 1000, clicks |-> 100, conversions |-> 10]
OutOfLine == {"back_dated", "expired", "other_campaign"}

AnomalyHistory(len, spikes, special, kind) ==
    [i \in 1..len |->
        LET campaign_id == IF i = special /\ kind = "other_campaign"
                           THEN "campaign_2" ELSE "campaign_1"
        IN  [campaign_id |-> campaign_id,
             channel |-> ChannelOf(campaign_id),
             timestamp |-> IF i = special /\ kind = "back_dated" THEN -HoursPerDay
                           ELSE IF i = special /\ kind = "expired"
                           THEN -(AnomalyDays * HoursPerDay) - 1
                           ELSE i - len,
             metrics |-> IF i \in spikes THEN ProfileSpike ELSE ProfileBase]]

AnomalyHistories ==
    {AnomalyHistory(len, spikes, special, kind) :
        len \in (MinAnomalyPoints - 1)..MaxHistory,
        spikes \in {S \in SUBSET (1..MaxHistory) : Cardinality(S) <= 2},
        special \in 0..MaxHistory,
        kind \in OutOfLine}

InitAnomaly ==
    /\ now = 0
    /\ snapshots \in AnomalyHistories
    /\ alerts = <<>>
    /\ alert_callbacks = <<>>
    /\ recorded = snapshots
    /\ notified = <<>>
    /\ op = [name |-> "__init__", arg |-> None]
    /\ ret = NoReturn
    /\ AttrIdle
    /\ SevIdle
    /\ MonIdle

NextAnomaly == AnomalyStep(Campaigns, {"roas"}, {RInt(1), RInt(2)})

SpecAnomaly == InitAnomaly /\ [][NextAnomaly]_vars

\* The reporting calls on a tracker that has recorded up to MaxRecords snapshots
\* (fewer than its capacity) of three campaigns: the first with any of the
\* profiles below, the third with snapshots of different age. The amounts keep
\* every week's ROAS and CPA off the thresholds of the recommendation rules,
\* where the rounding of the float products decides.
\* ROAS 16, CPA 2
ProfileCheap ==
    [cost |-> 100, revenue |-> 1600, impressions |-> 1000, clicks |-> 100, conversions |-> 50]
\* ROAS 1, CPA 50
ProfilePoor ==
    [cost |-> 100, revenue |-> 100, impressions |-> 1000, clicks |-> 100, conversions |-> 2]
\* ROAS 4, CPA 50
ProfileFewConversions ==
    [cost |-> 100, revenue |-> 400, impressions |-> 1000, clicks |-> 100, conversions |-> 2]
\* ROAS 8 and no conversions entry
ProfileNoConversions ==
    [cost |-> 100, revenue |-> 800, impressions |-> 1000, clicks |-> 100]

ReportInputs ==
    SnapshotInputs(0, {"campaign_1"},
                   {ProfileBase, ProfileSpike, ProfileDrop35, ProfileCheap, ProfilePoor,
                    ProfileFewConversions, ProfileNoConversions}, {0})
    \cup SnapshotInputs(0, {"campaign_2"}, {ProfileBase, ProfileDrop35}, {0})
    \cup SnapshotInputs(0, {"campaign_3"}, {ProfileBase}, {0, 100, 200})

InitReports ==
    /\ now = 0
    /\ snapshots \in SeqsUpTo(ReportInputs, MaxRecords)
    /\ alerts = <<>>
    /\ alert_callbacks = <<>>
    /\ recorded = snapshots
    /\ notified = <<>>
    /\ op = [name |-> "__init__", arg |-> None]
    /\ ret = NoReturn
    /\ AttrIdle
    /\ SevIdle
    /\ MonIdle

NextReports ==
    \/ RecommendationsStep
    \/ SummaryStep({HoursPerDay, WeekHours})

SpecReports == InitReports /\ [][NextReports]_vars

\* Recording, with snapshots that may be back-dated by half a day, and the trend
\* of the last day of the first campaign
NextTrend ==
    \/ TickStep
    \/ CallbackStep({"cb_ok"}, 1)
    \/ RecordStep(SnapshotInputs(now, {"campaign_1"}, {ProfileBase}, {0, 12})
                  \cup SnapshotInputs(now, {"campaign_1"}, {ProfileDrop35}, {0})
                  \cup SnapshotInputs(now, {"campaign_2"}, {ProfileBase}, {0}))
    \/ TrendStep({"campaign_1"}, {"roas"}, {1})

SpecTrend == Init /\ [][NextTrend]_vars

\* Recording snapshots of one campaign, stamped with the clock or back-dated by
\* a day and a half
NextBackDated ==
    \/ TickStep
    \/ RecordStep(SnapshotInputs(now, {"campaign_1"}, {ProfileBase}, {0})
                  \cup SnapshotInputs(now, {"campaign_1"}, {ProfileDrop35}, {0, 36}))

SpecBackDated == Init /\ [][NextBackDated]_vars

(***************************************************************************)
(* ROITracker: the monitoring loop                                         *)
(***************************************************************************)
\* The checks one loop may make
MaxChecks == 3

\* A call of start_monitoring creates the coroutine; nothing of it has run
CreateMonitor(m) ==
    /\ monitors[m].pc = "not_called"
    /\ monitors' = [monitors EXCEPT ![m].pc = "created"]
    /\ UNCHANGED monitoring_active

\* One pass of the while body up to its await: the check, then
\* asyncio.sleep(check_interval_seconds), or asyncio.sleep(60) in the handler
\* when the body raised an Exception
Iteration(m, raised) ==
    [monitors[m] EXCEPT !.pc = IF raised THEN "retrying" ELSE "sleeping",
                        !.checks = @ + 1]

\* The coroutine runs for the first time: it sets the flag and runs to its
\* first await without a suspension
FirstRun(m) ==
    /\ monitors[m].pc = "created"
    /\ monitoring_active' = TRUE
    /\ \E raised \in BOOLEAN : monitors' = [monitors EXCEPT ![m] = Iteration(m, raised)]

\* A sleep ends: the while test, then the next pass or the return
Wake(m) ==
    /\ monitors[m].pc \in {"sleeping", "retrying"}
    /\ IF monitoring_active
       THEN /\ monitors[m].checks < MaxChecks
            /\ \E raised \in BOOLEAN :
                  monitors' = [monitors EXCEPT ![m] = Iteration(m, raised)]
       ELSE monitors' = [monitors EXCEPT ![m].pc = "returned"]
    /\ UNCHANGED monitoring_active

\* ROITracker.stop_monitoring
StopMonitoring ==
    /\ monitoring_active' = FALSE
    /\ monitors' = [m \in Loops |->
                       IF monitors[m].pc \in {"sleeping", "retrying"}
                          /\ monitors[m].stopped_at = None
                       THEN [monitors[m] EXCEPT !.stopped_at = Some(monitors[m].checks)]
                       ELSE monitors[m]]

MonitorStep(m) ==
    /\ CreateMonitor(m) \/ FirstRun(m) \/ Wake(m)
    /\ UNCHANGED <<trackerVars, attrVars, sevVars>>

StopStep ==
    /\ StopMonitoring
    /\ UNCHANGED <<trackerVars, attrVars, sevVars>>

NextMonitoring ==
    \/ \E m \in Loops : MonitorStep(m)
    \/ StopStep

\* The event loop keeps running every coroutine that can run
SpecMonitoring ==
    /\ Init
    /\ [][NextMonitoring]_vars
    /\ \A m \in Loops : WF_vars(FirstRun(m) /\ UNCHANGED <<trackerVars, attrVars, sevVars>>)
    /\ \A m \in Loops : WF_vars(Wake(m) /\ UNCHANGED <<trackerVars, attrVars, sevVars>>)

\* A step that is one resolve_alert call
IsResolveStep == op'.name = "resolve_alert" /\ now' = now /\ vars' # vars

\* C8: a new alert is open; an existing alert is neither removed nor changed by any
\* step, except that a resolve_alert call with its id marks it resolved if it is the
\* first open alert with that id; resolve_alert returns True when an open alert with
\* the id exists and False, changing nothing, otherwise; a resolved alert stays
\* resolved.
C8_AlertsChangeOnlyByResolve ==
    [][/\ Len(alerts') >= Len(alerts)
       /\ \A i \in (Len(alerts) + 1)..Len(alerts') : ~alerts'[i].is_resolved
       /\ \A i \in 1..Len(alerts) :
             /\ alerts[i].is_resolved => alerts'[i] = alerts[i]
             /\ alerts'[i] # alerts[i] =>
                   /\ IsResolveStep
                   /\ op'.arg = Some(alerts[i].alert_id)
                   /\ alerts'[i] = [alerts[i] EXCEPT !.is_resolved = TRUE,
                                                     !.resolution_timestamp = Some(now)]
       /\ IsResolveStep =>
             LET open == {i \in 1..Len(alerts) :
                             alerts[i].alert_id = op'.arg[1] /\ ~alerts[i].is_resolved}
             IN  IF open # {}
                 THEN /\ ret'.value = Some(TRUE)
                      /\ \E i \in open :
                            /\ \A k \in open : i <= k
                            /\ alerts'[i].is_resolved
                            /\ \A k \in 1..Len(alerts) : k # i => alerts'[k] = alerts[k]
                 ELSE /\ ret'.value = Some(FALSE)
                      /\ alerts' = alerts]_vars

\* The dashboard was produced while one alert was resolved and another one, raised
\* after it, was open.
C8_Witness_DashboardAfterResolve ==
    /\ op.name = "generate_executive_dashboard"
    /\ \E i, k \in 1..Len(alerts) :
          /\ i < k
          /\ alerts[i].is_resolved
          /\ ~alerts[k].is_resolved

\* A read of a derived ratio of a snapshot, the two metrics it divides and the
\* value it gives without a quotient
RatioRead == op.name \in RatioMetrics
RatioSnapshot == op.arg[1]
Numerator ==
    MetricGet(RatioSnapshot.metrics,
              CASE op.name = "roas" -> "revenue"
                [] op.name = "cpa" -> "cost"
                [] op.name = "ctr" -> "clicks"
                [] op.name = "conversion_rate" -> "conversions")
Denominator ==
    MetricGet(RatioSnapshot.metrics,
              CASE op.name = "roas" -> "cost"
                [] op.name = "cpa" -> "conversions"
                [] op.name = "ctr" -> "impressions"
                [] op.name = "conversion_rate" -> "clicks")
Sentinel == IF op.name = "cpa" THEN Inf ELSE Zero

\* C22 as claimed: for every CampaignSnapshot, including one with missing metric
\* entries, a derived ratio never raises; it is 0 (infinity for CPA) when its
\* denominator is 0, and the quotient of its two metrics otherwise.
C22_Claimed_QuotientUnlessZero ==
    RatioRead
    => /\ ~ret.raised
       /\ ret.value = Some(IF Denominator = 0 THEN Sentinel
                           ELSE Rat(Numerator, Denominator))

\* C22: for every CampaignSnapshot with numeric metric entries, including one with
\* missing entries, a derived ratio never raises; it is the quotient of its two
\* metrics when its denominator is positive, and 0 (infinity for CPA) when the
\* denominator is 0, missing or negative.
C22_QuotientWhenPositive ==
    RatioRead
    => /\ ~ret.raised
       /\ ret.value = Some(IF Denominator > 0 THEN Rat(Numerator, Denominator)
                           ELSE Sentinel)

\* CPA of a snapshot that has a cost of 3 and no conversions entry is infinite
C22_Witness_CpaWithoutConversions ==
    /\ op.name = "cpa"
    /\ "conversions" \notin DOMAIN RatioSnapshot.metrics
    /\ Numerator = 3
    /\ ~ret.raised
    /\ ret.value = Some(Inf)

\* A detect_anomalies call, the stored observations of its campaign in the
\* trailing 30 days (by position in the history), and those of them that are
\* among the last 7 in time
AnomalyCall == op.name = "detect_anomalies"
AnomalyWindow ==
    {i \in 1..Len(snapshots) :
        /\ snapshots[i].campaign_id = op.arg[1][1]
        /\ snapshots[i].timestamp >= now - AnomalyDays * HoursPerDay}
Later(i) ==
    {j \in AnomalyWindow :
        \/ snapshots[j].timestamp > snapshots[i].timestamp
        \/ snapshots[j].timestamp = snapshots[i].timestamp /\ j > i}
AnomalyLast == {i \in AnomalyWindow : Cardinality(Later(i)) < AnomalyTail}
Anomalies == ret.value[1]

\* C23: detect_anomalies returns an empty list whenever the campaign has fewer
\* than 10 stored observations in the trailing 30 days, whatever their values
\* are; every anomaly it returns otherwise is one of the last 7 observations of
\* that window.
C23_TenPointsThenLastSeven ==
    AnomalyCall
    => /\ ~ret.raised
       /\ Cardinality(AnomalyWindow) < MinAnomalyPoints => Anomalies = <<>>
       /\ \A k \in 1..Len(Anomalies) :
              \E i \in AnomalyLast :
                  /\ Anomalies[k][1] = snapshots[i].timestamp
                  /\ Anomalies[k][2] = MetricValue(snapshots[i], op.arg[1][2])

\* Eleven observations with a doubled ROAS on the fourth and on the last: the
\* last is returned as a spike, the fourth, as deviant, is not among the last 7
C23_Witness_SpikeInAndOutOfTail ==
    /\ AnomalyCall
    /\ op.arg[1] = <<"campaign_1", "roas", RInt(2)>>
    /\ Cardinality(AnomalyWindow) = 11
    /\ {i \in AnomalyWindow : snapshots[i].metrics = ProfileSpike} = {4, 11}
    /\ 4 \notin AnomalyLast
    /\ Anomalies = <<<<0, RInt(8), "positive_spike">>>>

\* A get_budget_optimization_recommendations call, the campaigns that have a
\* snapshot in the trailing week, and the week's ROAS and CPA of one of them
RecommendationsCall == op.name = "get_budget_optimization_recommendations"
Recommendations == ret.value[1]
WeekIndices(campaign_id) ==
    {i \in 1..Len(snapshots) :
        /\ snapshots[i].campaign_id = campaign_id
        /\ snapshots[i].timestamp >= now - WeekHours}
WeekCampaigns ==
    {snapshots[i].campaign_id : i \in {k \in 1..Len(snapshots) :
                                          snapshots[k].timestamp >= now - WeekHours}}

RECURSIVE WeekTotal(_, _)
WeekTotal(indices, metric) ==
    IF indices = {} THEN 0
    ELSE LET i == CHOOSE k \in indices : TRUE
         IN  MetricGet(snapshots[i].metrics, metric) + WeekTotal(indices \ {i}, metric)

WeekRoas(c) ==
    IF WeekTotal(WeekIndices(c), "cost") > 0
    THEN Rat(WeekTotal(WeekIndices(c), "revenue"), WeekTotal(WeekIndices(c), "cost"))
    ELSE Zero
WeekCpa(c) ==
    IF WeekTotal(WeekIndices(c), "conversions") > 0
    THEN Rat(WeekTotal(WeekIndices(c), "cost"), WeekTotal(WeekIndices(c), "conversions"))
    ELSE Inf

RECURSIVE SeqOfSet(_)
SeqOfSet(S) ==
    IF S = {} THEN <<>>
    ELSE LET x == CHOOSE y \in S : TRUE IN <<x>> \o SeqOfSet(S \ {x})

\* The medians over the campaigns of the week: of the ROAS, and of the CPA of
\* the campaigns that have one (a positive, finite CPA)
WeekMedianRoas ==
    LET cs == SeqOfSet(WeekCampaigns)
    IN  Median([i \in 1..Len(cs) |-> WeekRoas(cs[i])])
WithCpa == {c \in WeekCampaigns : WeekCpa(c) # Inf /\ RGt(WeekCpa(c), Zero)}
WeekMedianCpa ==
    LET cs == SeqOfSet(WithCpa)
    IN  Median([i \in 1..Len(cs) |-> WeekCpa(cs[i])])

\* The action of the first matching rule for a ROAS and a CPA, and the
\* confidence of an action
FirstMatchingRule(roas_value, cpa_value) ==
    LET cpa_below(factor) ==
            WithCpa # {} /\ RLt(cpa_value, RMul(WeekMedianCpa, factor))
        cpa_above(factor) ==
            WithCpa # {} /\ RGt(cpa_value, RMul(WeekMedianCpa, factor))
    IN  CASE RGt(roas_value, RMul(WeekMedianRoas, Rat(15, 10))) /\ cpa_below(Rat(7, 10))
               -> "INCREASE_BUDGET"
          [] OTHER ->
        CASE RGt(roas_value, RMul(WeekMedianRoas, Rat(12, 10))) -> "MODERATE_INCREASE"
          [] OTHER ->
        CASE RLt(roas_value, RMul(WeekMedianRoas, Rat(5, 10))) \/ cpa_above(RInt(2))
               -> "DECREASE_BUDGET"
          [] OTHER ->
        CASE RLt(roas_value, RMul(WeekMedianRoas, Rat(8, 10))) -> "OPTIMIZE"
          [] OTHER -> "MAINTAIN"

ConfidenceOf(action) ==
    CASE action = "INCREASE_BUDGET" -> Rat(9, 10)
      [] action = "MODERATE_INCREASE" -> Rat(75, 100)
      [] action = "DECREASE_BUDGET" -> Rat(85, 100)
      [] action = "OPTIMIZE" -> Rat(7, 10)
      [] action = "MAINTAIN" -> Rat(6, 10)

RecommendationsOf(c) ==
    {i \in 1..Len(Recommendations) : Recommendations[i].campaign_id = c}

\* C24 as claimed: get_budget_optimization_recommendations assigns each campaign
\* of the trailing week exactly one action, that of the first matching rule for
\* its ROAS and CPA (cost / conversions, infinite without conversions) against
\* the medians, with the confidence score of the action.
C24_Claimed_OneActionByFirstMatchingRule ==
    RecommendationsCall
    => /\ \A i \in 1..Len(Recommendations) : Recommendations[i].campaign_id \in WeekCampaigns
       /\ \A c \in WeekCampaigns :
              /\ Cardinality(RecommendationsOf(c)) = 1
              /\ \A i \in RecommendationsOf(c) :
                     /\ Recommendations[i].recommendation
                            = FirstMatchingRule(WeekRoas(c), WeekCpa(c))
                     /\ Recommendations[i].confidence_score
                            = ConfidenceOf(Recommendations[i].recommendation)

\* What the code does: no recommendation at all with fewer than two campaigns
\* in the week; otherwise the first matching rule with the CPA of a campaign
\* without conversions taken as 0
RecommendationsByReportedCpa ==
    RecommendationsCall
    => IF Cardinality(WeekCampaigns) < 2 THEN Recommendations = <<>>
       ELSE /\ \A i \in 1..Len(Recommendations) :
                   Recommendations[i].campaign_id \in WeekCampaigns
            /\ \A c \in WeekCampaigns :
                   /\ Cardinality(RecommendationsOf(c)) = 1
                   /\ \A i \in RecommendationsOf(c) :
                          /\ Recommendations[i].recommendation
                                = FirstMatchingRule(WeekRoas(c),
                                                    IF WeekCpa(c) = Inf THEN Zero
                                                    ELSE WeekCpa(c))
                          /\ Recommendations[i].confidence_score
                                = ConfidenceOf(Recommendations[i].recommendation)

\* Three campaigns, the first with ROAS 8 and no conversions against a median
\* ROAS of 4 and a median CPA of 10: it is told INCREASE_BUDGET, the action of
\* the rule that asks for a CPA below 7, where its ROAS alone gives
\* MODERATE_INCREASE
C24_Witness_NoConversionsIncreaseBudget ==
    /\ RecommendationsCall
    /\ Cardinality(WeekCampaigns) = 3
    /\ Len(snapshots) = 3
    /\ snapshots[1].campaign_id = "campaign_1"
    /\ snapshots[1].metrics = ProfileNoConversions
    /\ WeekMedianRoas = RInt(4)
    /\ WeekMedianCpa = RInt(10)
    /\ WeekCpa("campaign_1") = Inf
    /\ FirstMatchingRule(WeekRoas("campaign_1"), WeekCpa("campaign_1")) = "MODERATE_INCREASE"
    /\ Recommendations[1].campaign_id = "campaign_1"
    /\ Recommendations[1].recommendation = "INCREASE_BUDGET"
    /\ Recommendations[1].confidence_score = Rat(9, 10)

\* A generate_performance_summary call, the stored snapshots of a campaign in
\* its trailing window, and the sum of a metric over them
SummaryCall == op.name = "generate_performance_summary"
Summary == ret.value[1]
WindowIndices(c) ==
    {i \in 1..Len(snapshots) :
        /\ snapshots[i].campaign_id = c
        /\ snapshots[i].timestamp >= now - op.arg[1][1]}
WindowCampaigns ==
    {snapshots[i].campaign_id : i \in {k \in 1..Len(snapshots) :
                                          snapshots[k].timestamp >= now - op.arg[1][1]}}
WindowTotal(c, metric) == WeekTotal(WindowIndices(c), metric)
Quotient(numerator, denominator, sentinel) ==
    IF denominator > 0 THEN Rat(numerator, denominator) ELSE sentinel
SummaryOf(c) == {i \in 1..Len(Summary) : Summary[i].campaign_id = c}

\* The parts of an entry that the code and the claim agree on: the totals of
\* cost, revenue and conversions and the averages other than the CPA
TotalsAndRatios(entry, c) ==
    /\ entry.total_cost = WindowTotal(c, "cost")
    /\ entry.total_revenue = WindowTotal(c, "revenue")
    /\ entry.total_conversions = WindowTotal(c, "conversions")
    /\ entry.avg_roas = Quotient(WindowTotal(c, "revenue"), WindowTotal(c, "cost"), Zero)
    /\ entry.avg_ctr
           = Quotient(WindowTotal(c, "clicks"), WindowTotal(c, "impressions"), Zero)
    /\ entry.avg_conversion_rate
           = Quotient(WindowTotal(c, "conversions"), WindowTotal(c, "clicks"), Zero)

\* C25 as claimed: generate_performance_summary returns one entry per campaign
\* that has a snapshot in the trailing window, with the totals of cost, revenue,
\* conversions, clicks and impressions over that campaign's snapshots in the
\* window and the averages ROAS, CPA, CTR and conversion rate as quotients of
\* the totals, 0 when the denominator is 0 and infinite for the CPA.
C25_Claimed_TotalsAndInfiniteCpa ==
    SummaryCall
    => /\ \A i \in 1..Len(Summary) : Summary[i].campaign_id \in WindowCampaigns
       /\ \A c \in WindowCampaigns :
              /\ Cardinality(SummaryOf(c)) = 1
              /\ \A i \in SummaryOf(c) :
                     /\ TotalsAndRatios(Summary[i], c)
                     /\ {"total_clicks", "total_impressions"} \subseteq DOMAIN Summary[i]
                     /\ Summary[i].total_clicks = WindowTotal(c, "clicks")
                     /\ Summary[i].total_impressions = WindowTotal(c, "impressions")
                     /\ Summary[i].avg_cpa
                            = Quotient(WindowTotal(c, "cost"),
                                       WindowTotal(c, "conversions"), Inf)

\* What the code returns: the entries without totals of clicks and impressions,
\* and with a CPA of 0 for a campaign without conversions
SummaryReportsZeroCpa ==
    SummaryCall
    => /\ \A i \in 1..Len(Summary) : Summary[i].campaign_id \in WindowCampaigns
       /\ \A c \in WindowCampaigns :
              /\ Cardinality(SummaryOf(c)) = 1
              /\ \A i \in SummaryOf(c) :
                     /\ TotalsAndRatios(Summary[i], c)
                     /\ {"total_clicks", "total_impressions"} \cap DOMAIN Summary[i] = {}
                     /\ Summary[i].avg_cpa
                            = Quotient(WindowTotal(c, "cost"),
                                       WindowTotal(c, "conversions"), Zero)

\* The summary of the last day for a campaign with one snapshot of cost 100
\* without a conversions entry, next to a campaign with a CPA of 10: the first
\* is reported with a CPA of 0
C25_Witness_CpaReportedAsZero ==
    /\ SummaryCall
    /\ op.arg[1][1] = HoursPerDay
    /\ Len(Summary) = 2
    /\ Summary[1].campaign_id = "campaign_1"
    /\ WindowTotal("campaign_1", "cost") = 100
    /\ WindowTotal("campaign_1", "conversions") = 0
    /\ Summary[1].avg_cpa = Zero
    /\ Summary[2].avg_cpa = RInt(10)

\* A step that is one get_performance_trend call, the stored snapshots of its
\* campaign inside its trailing window (by position in the history), and the
\* number of times a pair occurs in a sequence
IsTrendStep == op'.name = "get_performance_trend" /\ now' = now /\ vars' # vars
TrendWindow(campaign_id, days) ==
    {i \in 1..Len(snapshots) :
        /\ snapshots[i].campaign_id = campaign_id
        /\ snapshots[i].timestamp >= now - days * HoursPerDay}
Occurrences(s, x) == Cardinality({k \in 1..Len(s) : s[k] = x})
TrendOf(trend, campaign_id, metric_type, days) ==
    /\ Len(trend) = Cardinality(TrendWindow(campaign_id, days))
    /\ \A i \in TrendWindow(campaign_id, days) :
           LET pair == <<snapshots[i].timestamp, MetricValue(snapshots[i], metric_type)>>
           IN  Occurrences(trend, pair)
                  = Cardinality({k \in TrendWindow(campaign_id, days) :
                                    /\ snapshots[k].timestamp = pair[1]
                                    /\ MetricValue(snapshots[k], metric_type) = pair[2]})
    /\ \A k \in 1..(Len(trend) - 1) : trend[k][1] <= trend[k + 1][1]

\* C26 as claimed: get_performance_trend returns the pairs of the campaign's
\* stored snapshots inside the trailing window in ascending timestamp order and
\* leaves the history, the alerts and the observers unchanged, so that two calls
\* with the same arguments and no record in between return the same sequence.
C26_Claimed_SameSequenceWithoutRecord ==
    [][/\ IsTrendStep
          => /\ TrendOf(ret'.value[1], op'.arg[1][1], op'.arg[1][2], op'.arg[1][3])
             /\ UNCHANGED <<snapshots, alerts, alert_callbacks>>
       /\ (op.name = "get_performance_trend" /\ op'.name = "get_performance_trend"
           /\ op'.arg = op.arg /\ snapshots' = snapshots)
          => ret' = ret]_vars

\* C26: get_performance_trend returns the (timestamp, value) pairs of exactly
\* the given campaign's stored snapshots inside the window that trails the time
\* of the call, in ascending timestamp order whatever the order of recording,
\* and leaves the history, the alerts and the observers unchanged: the sequence
\* is determined by the stored history, the arguments and the time of the call.
C26_TrendOfWindowAtCallTime ==
    [][IsTrendStep
       => /\ TrendOf(ret'.value[1], op'.arg[1][1], op'.arg[1][2], op'.arg[1][3])
          /\ ~ret'.raised
          /\ UNCHANGED <<snapshots, alerts, alert_callbacks>>]_vars

\* The trend of a history that holds a snapshot and, recorded after it, one
\* back-dated before it, with an alert raised and an observer registered
C26_Witness_BackDatedSortedFirst ==
    /\ op.name = "get_performance_trend"
    /\ op.arg[1][1] = "campaign_1"
    /\ Len(snapshots) = 2
    /\ snapshots[1].timestamp > snapshots[2].timestamp
    /\ alerts # <<>>
    /\ alert_callbacks # <<>>
    /\ ret.value[1] = <<<<snapshots[2].timestamp, roas(snapshots[2])>>,
                        <<snapshots[1].timestamp, roas(snapshots[1])>>>>

\* A loop ends only by its while test finding the flag clear
LoopEndsOnlyOnClearFlag ==
    [][\A m \in Loops :
          (monitors[m].pc # "returned" /\ monitors'[m].pc = "returned")
          => ~monitoring_active]_vars

\* C27 as claimed: once stop_monitoring has been called while a start_monitoring
\* loop is running, that loop makes no further check after its current sleep
\* ends and eventually returns (the event loop keeps running it); an exception
\* inside an iteration does not end the loop while the flag is still set.
C27_Claimed_StopEndsTheLoop ==
    /\ [](\A m \in Loops :
             monitors[m].stopped_at # None => monitors[m].checks = monitors[m].stopped_at[1])
    /\ \A m \in Loops : (monitors[m].stopped_at # None) ~> (monitors[m].pc = "returned")
    /\ LoopEndsOnlyOnClearFlag

\* What the flag gives: a stopped loop returns at the end of its sleep unless
\* the flag has been set again by then, and it makes a further check only with
\* the flag set again
StopEndsTheLoopUnlessFlagSetAgain ==
    /\ [][\A m \in Loops :
             (monitors[m].stopped_at # None /\ monitors'[m].checks # monitors[m].checks)
             => monitoring_active]_vars
    /\ \A m \in Loops :
          (monitors[m].stopped_at # None)
              ~> (monitors[m].pc = "returned" \/ monitoring_active)
    /\ LoopEndsOnlyOnClearFlag

\* The first loop was stopped after one check; the second start_monitoring ran
\* before the first loop's sleep ended, and the first loop has made another check
C27_Witness_StoppedLoopChecksAgain ==
    /\ monitors[1].stopped_at = Some(1)
    /\ monitors[1].checks = 2
    /\ monitors[1].pc = "sleeping"
    /\ monitors[2].pc = "sleeping"
    /\ monitors[2].stopped_at = None
    /\ monitoring_active

\* C28 as claimed: the baseline against which record_campaign_snapshot evaluates
\* a snapshot is computed only from the snapshots recorded before it, whatever
\* its timestamp: the alerts of a call are those of the snapshot against the
\* history as it was before the call.
C28_Claimed_BaselineFromEarlierSnapshots ==
    [][IsRecordStep
       => NewAlerts = CheckPerformanceAlerts(RecordedSnapshot, snapshots,
                                             alert_callbacks, now).alerts]_vars

\* What the code compares with: the prior-day average over the history with the
\* recorded snapshot appended
BaselineIncludesRecordedSnapshot ==
    [][IsRecordStep
       => \A k \in 1..Len(NewAlerts) :
              Some(NewAlerts[k].threshold_value)
                  = PriorDayAverage(Append(snapshots, RecordedSnapshot),
                                    RecordedSnapshot.campaign_id, now,
                                    NewAlerts[k].metric_type)]_vars

\* A snapshot with ROAS 2.6, back-dated into the prior day of a history that
\* holds one snapshot with ROAS 4 there, has been compared with 3.3, the average
\* of the two: a medium alert at -21.2%, where the drop against 4 is 35%
C28_Witness_BackDatedComparedWithItself ==
    /\ op.name = "record_campaign_snapshot"
    /\ now = 2 * HoursPerDay
    /\ Len(snapshots) = 2
    /\ snapshots[1].metrics = ProfileBase /\ snapshots[1].timestamp = 0
    /\ snapshots[2].metrics = ProfileDrop35 /\ snapshots[2].timestamp = 12
    /\ op.arg = Some(snapshots[2])
    /\ \E k \in 1..Len(alerts) :
          /\ alerts[k].metric_type = "roas"
          /\ alerts[k].timestamp = now
          /\ alerts[k].current_value = Rat(26, 10)
          /\ alerts[k].threshold_value = Rat(33, 10)
          /\ alerts[k].severity = "medium"

\* C29 as claimed: after any sequence of record_campaign_snapshot calls no two
\* alerts of the alert list have the same alert_id, so that a resolve_alert(id)
\* call leaves no open alert with that id.
C29_Claimed_AlertIdsAreUnique ==
    /\ \A i, k \in 1..Len(alerts) : i # k => alerts[i].alert_id # alerts[k].alert_id
    /\ op.name = "resolve_alert"
       => \A i \in 1..Len(alerts) : alerts[i].alert_id = op.arg[1] => alerts[i].is_resolved

\* What resolve_alert leaves: of the alerts with its id, those that were open
\* before the last one it resolved are resolved
ResolvedUpToFirstOpen ==
    [][IsResolveStep
       => \A i \in 1..Len(alerts) :
              (alerts[i].alert_id = op'.arg[1] /\ ~alerts[i].is_resolved /\ alerts'[i].is_resolved)
              => \A k \in 1..(i - 1) :
                     alerts[k].alert_id = op'.arg[1] => alerts[k].is_resolved]_vars

\* Two snapshots of a campaign recorded at the same clock reading have raised
\* two alerts with one id; resolve_alert has resolved the first and left the
\* second open
C29_Witness_SecondAlertStaysOpen ==
    /\ op.name = "resolve_alert"
    /\ ret.value = Some(TRUE)
    /\ \E i, k \in 1..Len(alerts) :
          /\ i < k
          /\ alerts[i].alert_id = op.arg[1]
          /\ alerts[k].alert_id = op.arg[1]
          /\ alerts[i].timestamp = alerts[k].timestamp
          /\ alerts[i].is_resolved
          /\ ~alerts[k].is_resolved

=============================================================================
